---- MODULE Spec2Model ----
(***************************************************************************)
(* AShare-Sentinel: the paper-trading ledger (src/src/portfolio/manager.py),*)
(* the candidate aggregation and the analysis run of the pipeline          *)
(* (src/auto_analysis.py), the scoring gateway (src/ai_agent.py), the      *)
(* streak query (check_streak), the status column of the signal store      *)
(* (src/src/database/database.py, src/app.py), the retry executor and the  *)
(* snapshot cache (src/src/data/data_loader.py, src/src/utils/cache.py),   *)
(* the automatic trade step pass by pass, the orchestrator and the         *)
(* dashboard as writers of the cache file and of portfolio.json, the       *)
(* cleaning and validation of a snapshot (src/src/utils/validator.py) and  *)
(* the three strategies (src/src/strategies/strategies.py).                *)
(*                                                                         *)
(* Money is counted in cents (1 yuan = 100 cents): a price is the number   *)
(* of cents per share, cash and costs are cents.  The market snapshot      *)
(* carries prices with two decimals inside                                 *)
(* [DataValidation.MIN_PRICE, DataValidation.MAX_PRICE] = [0.01, 1000.00], *)
(* i.e. 1..100000 cents.  Names, dates and wall-clock timestamps are       *)
(* opaque text the ledger only copies; they are left out of the records.   *)
(***************************************************************************)
EXTENDS Integers, Sequences, FiniteSets, TLC

VARIABLES
    live,            \* a PortfolioManager instance exists in the running process
    data,            \* PortfolioManager.data: the in-memory account
    portfolio_file,  \* portfolio.json on disk
    saveFailures,    \* number of _save calls whose write raised (and was logged)
    torn,            \* history: the buy during which the process was torn down
    call,            \* history: the last ledger operation, its inputs and result
    dd_candidates,   \* aggregation: the concatenated per-strategy candidate list
    dd_unique,       \* aggregation: _deduplicate_candidates(dd_candidates)
    dd_twice,        \* aggregation: _deduplicate_candidates(dd_unique)
    dd_pc,           \* aggregation: the stage run_analysis has reached
    dd_max,          \* aggregation: the max_candidates argument of run_analysis
    dd_batch,        \* aggregation: the list handed to _ai_analysis_pipeline
    gw_pc,           \* scoring gateway: where one analyze_stock call stands
    gw_reply,        \* scoring gateway: what the scoring service answers
    gw_result,       \* scoring gateway: what analyze_stock hands to its caller
    pl_pc,           \* analysis run: the stage run_analysis has reached
    pl_auto_trade,   \* analysis run: PortfolioConfig.AUTO_TRADE_ENABLED
    pl_history,      \* analysis run: stock_analysis rows of earlier runs
    pl_rows,         \* analysis run: stock_analysis rows inserted by this run
    pl_fetches,      \* analysis run: how the snapshot fetch ended
    pl_analyzer,     \* analysis run: what became of AIStockAnalyzer()
    pl_batch,        \* analysis run: the capped candidate list
    pl_idx,          \* analysis run: position of the loop in pl_batch
    pl_log,          \* history: one entry per candidate the loop attempted
    pl_high,         \* analysis run: high_score_stocks (with streak counts)
    pl_buys,         \* history: the symbols buy_stock was called for
    pl_summary,      \* analysis run: what _print_summary_table was given
    pl_success,      \* analysis run: success_count of _ai_analysis_pipeline
    pl_fail,         \* analysis run: fail_count of _ai_analysis_pipeline
    pl_stats,        \* analysis run: the statistics line printed after the loop
    pl_trace,        \* history: the calls of the run, in the order they were made
    pl_raised,       \* analysis run: an exception left run_analysis
    st_today,        \* streak query: DATE('now'), the current calendar day
    st_table,        \* streak query: the stock_analysis rows stored so far
    st_call,         \* history: the last operation on st_table and its result
    sg_status,       \* signal store: the status column, by record id
    sg_call,         \* history: the last operation on the status column
    rt_impl,         \* retry executor: which _fetch_with_retry was defined
    rt_pc,           \* retry executor: where one _fetch_with_retry call stands
    rt_events,       \* history: calls of func, log entries and sleeps, in order
    rt_errors,       \* retry executor: the exceptions the attempts raised
    rt_result,       \* retry executor: what the call returned or raised
    ch_now,          \* snapshot cache: time.time(), in seconds
    ch_ticks,        \* snapshot cache: how often the clock was advanced
    ch_file,         \* snapshot cache: CACHE_DIR/realtime_data.pkl
    ch_src_copy,     \* snapshot cache: src/cache/realtime_data.pkl
    ch_read,         \* history: the last operation on the cache and its result
    tr_pc,           \* automatic trade: where the step of lines 445-490 stands
    tr_enabled,      \* automatic trade: PortfolioConfig.AUTO_TRADE_ENABLED
    tr_stocks,       \* automatic trade: high_score_stocks_with_trend
    tr_idx,          \* automatic trade: position of the loop in tr_stocks
    tr_calls,        \* history: the buy_stock calls of the step
    tr_caught,       \* automatic trade: the handler of line 489 was entered
    wr_cache,        \* history: who stored into or deleted the cache file
    wr_ledger,       \* history: who wrote portfolio.json
    vd_pc,           \* snapshot cleaning: the step fetch_realtime_data is at
    vd_raw,          \* snapshot cleaning: the rows handed to the validator
    vd_frame,        \* snapshot cleaning: the frame as the last step left it
    sc_pc,           \* strategy scan: idle, ready or scanned
    sc_df,           \* strategy scan: the frame of the StrategyScanner
    sc_limit,        \* strategy scan: the limit argument
    sc_result        \* strategy scan: the strategy called and what it returned

vars == <<live, data, portfolio_file, saveFailures, torn, call,
          dd_candidates, dd_unique, dd_twice, dd_pc, dd_max, dd_batch,
          gw_pc, gw_reply, gw_result,
          pl_pc, pl_auto_trade, pl_history, pl_rows, pl_fetches, pl_analyzer,
          pl_batch, pl_idx, pl_log, pl_high, pl_buys, pl_summary, pl_raised,
          pl_success, pl_fail, pl_stats, pl_trace,
          st_today, st_table, st_call, sg_status, sg_call,
          rt_impl, rt_pc, rt_events, rt_errors, rt_result,
          ch_now, ch_ticks, ch_file, ch_src_copy, ch_read,
          tr_pc, tr_enabled, tr_stocks, tr_idx, tr_calls, tr_caught,
          wr_cache, wr_ledger, vd_pc, vd_raw, vd_frame,
          sc_pc, sc_df, sc_limit, sc_result>>

ledgerVars == <<live, data, portfolio_file, saveFailures, torn, call>>
dedupVars == <<dd_candidates, dd_unique, dd_twice, dd_pc, dd_max, dd_batch>>
gatewayVars == <<gw_pc, gw_reply, gw_result>>
pipelineVars == <<pl_pc, pl_auto_trade, pl_history, pl_rows, pl_fetches,
                  pl_analyzer, pl_batch, pl_idx, pl_log, pl_high, pl_buys,
                  pl_summary, pl_raised, pl_success, pl_fail, pl_stats,
                  pl_trace>>
scoringVars == <<gatewayVars, pipelineVars>>
streakVars == <<st_today, st_table, st_call>>
storeVars == <<sg_status, sg_call>>
retryVars == <<rt_impl, rt_pc, rt_events, rt_errors, rt_result>>
cacheVars == <<ch_now, ch_ticks, ch_file, ch_src_copy, ch_read>>
tradeVars == <<tr_pc, tr_enabled, tr_stocks, tr_idx, tr_calls, tr_caught>>
writerVars == <<wr_cache, wr_ledger>>
validatorVars == <<vd_pc, vd_raw, vd_frame>>
scanVars == <<sc_pc, sc_df, sc_limit, sc_result>>
extraVars == <<tradeVars, writerVars, validatorVars, scanVars>>
coreSupportVars == <<streakVars, storeVars, retryVars, cacheVars>>
supportVars == <<coreSupportVars, extraVars>>

----------------------------------------------------------------------------
(* Configuration: src/src/config.py, class PortfolioConfig.                *)

INITIAL_CASH == 1000000

TRADE_AMOUNT_PER_POS == 50000

\* the lot size: the literal 100 of "int(target_amount / price / 100) * 100"
LOT == 100

----------------------------------------------------------------------------
(* Bounds of the model.                                                    *)

\* symbols the pipeline offers to the ledger in the modelled runs
NumSymbols == 2

\* positions bought by earlier runs that the persisted account may hold
MaxPrior == 19

\* _save calls whose write may raise in one behaviour
MaxSaveFailures == 1

\* rows of one strategy's output
MaxPerStrategy == 2

\* the largest max_candidates a run is started with
MaxBatch == 2

\* the most insert_df calls of one run that raise
MaxDbFailures == 1

Symbols == 1..NumSymbols

\* the price at which exactly one lot costs the per-position amount (500.00)
OneLotPrice == (TRADE_AMOUNT_PER_POS * 100) \div LOT

\* the prices the pipeline offers: 10.50 (47 lots, 49350.00), 300.00 (one
\* lot, 30000.00) and 501.00 (no lot affordable)
Prices == {1050, 30000, OneLotPrice + 100}

UpdatePriceValues == {60000}

PriorSymbol(i) == NumSymbols + i

----------------------------------------------------------------------------
(* The account.                                                            *)

NoAccount == [cash |-> 0, positions |-> <<>>, transactions |-> <<>>]

DefaultAccount ==
    [cash |-> INITIAL_CASH * 100, positions |-> <<>>, transactions |-> <<>>]

Held(d, symbol) ==
    \E i \in 1..Len(d.positions) : d.positions[i].symbol = symbol

\* a share count that skips the rounding to whole lots
ShareCountNoLot(price) ==
    (TRADE_AMOUNT_PER_POS * 100) \div price

\* int(target_amount / price / 100) * 100 with price = cents / 100
ShareCount(price) ==
    (((TRADE_AMOUNT_PER_POS * 100) \div price) \div LOT) * LOT

NewPosition(symbol, price, shares, cost) ==
    [symbol |-> symbol, shares |-> shares, avg_price |-> price,
     current_price |-> price, cost |-> cost, market_value |-> cost,
     profit_loss |-> 0, profit_loss_pct |-> <<0, 1>>]

NewTransaction(symbol, price, shares, cost) ==
    [type |-> "buy", symbol |-> symbol, shares |-> shares, price |-> price,
     amount |-> cost]

\* "return False, <reason>": the account is left as it was
Rejected(d, msg, shares) ==
    [raised |-> FALSE, ok |-> FALSE, msg |-> msg, shares |-> shares, data |-> d]

\* an exception leaving buy_stock
Raised(d, msg) ==
    [raised |-> TRUE, ok |-> FALSE, msg |-> msg, shares |-> 0, data |-> d]

\* the execution part of buy_stock: debit, new position, transaction record
Bought(d, symbol, price, shares, cost) ==
    [raised |-> FALSE, ok |-> TRUE, msg |-> "bought", shares |-> shares,
     data |-> [cash |-> d.cash - cost,
               positions |-> Append(d.positions,
                                    NewPosition(symbol, price, shares, cost)),
               transactions |-> Append(d.transactions,
                                    NewTransaction(symbol, price, shares, cost))]]

\* buy_stock without the check of the cost against the cash
BuyStockNoCashCheck(d, symbol, price) ==
    IF Held(d, symbol) THEN Rejected(d, "held", 0)
    ELSE IF price = 0 THEN Raised(d, "ZeroDivisionError")
    ELSE LET shares == ShareCount(price)
             cost == shares * price
         IN  IF shares = 0 THEN Rejected(d, "insufficient", shares)
             ELSE Bought(d, symbol, price, shares, cost)

\* buy_stock without the check for an existing position
BuyStockNoHeldCheck(d, symbol, price) ==
    IF price = 0 THEN Raised(d, "ZeroDivisionError")
    ELSE LET shares == ShareCount(price)
             cost == shares * price
         IN  IF shares = 0 THEN Rejected(d, "insufficient", shares)
             ELSE IF d.cash < cost THEN Rejected(d, "insufficient", shares)
             ELSE Bought(d, symbol, price, shares, cost)

\* buy_stock raising when no lot is affordable instead of returning failure
BuyStockRaisesOnZeroShares(d, symbol, price) ==
    IF Held(d, symbol) THEN Rejected(d, "held", 0)
    ELSE IF price = 0 THEN Raised(d, "ZeroDivisionError")
    ELSE LET shares == ShareCount(price)
             cost == shares * price
         IN  IF shares = 0 THEN Raised(d, "ValueError")
             ELSE IF d.cash < cost THEN Rejected(d, "insufficient", shares)
             ELSE Bought(d, symbol, price, shares, cost)

\* buy_stock that forgets the debit
BuyStockNoDebit(d, symbol, price) ==
    IF Held(d, symbol) THEN Rejected(d, "held", 0)
    ELSE IF price = 0 THEN Raised(d, "ZeroDivisionError")
    ELSE LET shares == ShareCount(price)
             cost == shares * price
         IN  IF shares = 0 THEN Rejected(d, "insufficient", shares)
             ELSE IF d.cash < cost THEN Rejected(d, "insufficient", shares)
             ELSE [Bought(d, symbol, price, shares, cost)
                      EXCEPT !.data.cash = d.cash]

\* buy_stock without its _save: the result and the account it leaves in
\* memory.  The reasons "held", "insufficient" and "bought" stand for the
\* returned texts of lines 140, 149/157 and 205; a price of 0 makes the
\* division of line 144 raise ZeroDivisionError
BuyStock(d, symbol, price) ==
    IF Held(d, symbol) THEN Rejected(d, "held", 0)
    ELSE IF price = 0 THEN Raised(d, "ZeroDivisionError")
    ELSE LET shares == ShareCount(price)
             cost == shares * price
         IN  IF shares = 0 THEN Rejected(d, "insufficient", shares)
             ELSE IF d.cash < cost THEN Rejected(d, "insufficient", shares)
             ELSE Bought(d, symbol, price, shares, cost)

----------------------------------------------------------------------------
(* portfolio.json.                                                         *)

NoFile == [exists |-> FALSE, valid |-> FALSE, content |-> NoAccount]

FileOf(d) == [exists |-> TRUE, valid |-> TRUE, content |-> d]

\* open(..., 'w') has truncated the file and json.dump did not complete
TruncatedFile == [exists |-> TRUE, valid |-> FALSE, content |-> NoAccount]

SaveOutcomes == {"written", "open_failed", "dump_failed"}

\* _save: the file after writing d; a raised error is logged, never re-raised
Save(f, d, outcome) ==
    CASE outcome = "written" -> FileOf(d)
      [] outcome = "open_failed" -> f
      [] outcome = "dump_failed" -> TruncatedFile

\* _load_or_create: TRUE when it returns the file's content, FALSE when it
\* calls _create_default_account (no file, or the file cannot be parsed)
Loads(f) == f.exists /\ f.valid

LoadOrCreate(f) == IF Loads(f) THEN f.content ELSE DefaultAccount

\* the account persisted by k earlier buys of one lot each
RECURSIVE PriorAccount(_)
PriorAccount(k) ==
    IF k = 0 THEN DefaultAccount
    ELSE BuyStock(PriorAccount(k - 1), PriorSymbol(k), OneLotPrice).data

----------------------------------------------------------------------------
(* History records.                                                        *)

NoMap == [s \in {} |-> 0]

NoCall == [op |-> "none", symbol |-> 0, price |-> 0, price_map |-> NoMap,
           raised |-> FALSE, ok |-> FALSE, msg |-> "", shares |-> 0]

NoTorn == [active |-> FALSE, loaded |-> FALSE, synced |-> FALSE,
           pre |-> NoAccount, post |-> NoAccount]

----------------------------------------------------------------------------
(* update_prices.                                                          *)

\* an update that also re-bases the position on the new price
UpdatePositionRebase(p, price_map) ==
    IF p.symbol \in DOMAIN price_map
    THEN [p EXCEPT !.current_price = price_map[p.symbol],
                   !.avg_price = price_map[p.symbol],
                   !.market_value = p.shares * price_map[p.symbol],
                   !.cost = p.shares * price_map[p.symbol],
                   !.profit_loss = 0,
                   !.profit_loss_pct = <<0, 1>>]
    ELSE p

\* the loop body of update_prices for one position; profit_loss_pct is kept
\* exact as the pair <<profit_loss, cost>>: the percentage is 100 times their
\* ratio (0 for a position without cost)
UpdatePosition(p, price_map) ==
    IF p.symbol \in DOMAIN price_map
    THEN LET market_value == p.shares * price_map[p.symbol]
             profit_loss == market_value - p.cost
         IN  [p EXCEPT !.current_price = price_map[p.symbol],
                       !.market_value = market_value,
                       !.profit_loss = profit_loss,
                       !.profit_loss_pct = IF p.cost > 0
                                           THEN <<profit_loss, p.cost>>
                                           ELSE <<0, 1>>]
    ELSE p

UpdatePricesData(d, price_map) ==
    [d EXCEPT !.positions =
        [i \in 1..Len(d.positions) |-> UpdatePosition(d.positions[i], price_map)]]

\* the price maps offered to update_prices: any map over some of the symbols
PriceMaps == UNION {[S -> UpdatePriceValues] : S \in SUBSET Symbols}

----------------------------------------------------------------------------
(* The ledger's operations.                                                *)

\* whether this _save may raise, and the failure count after it
MayFail(outcome) == outcome = "written" \/ saveFailures < MaxSaveFailures

Count(outcome) == IF outcome = "written" THEN saveFailures ELSE saveFailures + 1

\* PortfolioManager(): __init__ with _load_or_create; the default account is
\* saved when it is created
Construct(outcome) ==
    /\ \/ ~Loads(portfolio_file) /\ MayFail(outcome)
       \/ Loads(portfolio_file) /\ outcome = "written"
    /\ live' = TRUE
    /\ data' = LoadOrCreate(portfolio_file)
    /\ portfolio_file' = IF Loads(portfolio_file) THEN portfolio_file
                         ELSE Save(portfolio_file, DefaultAccount, outcome)
    /\ saveFailures' = IF Loads(portfolio_file) THEN saveFailures ELSE Count(outcome)
    /\ torn' = IF torn.active /\ ~torn.loaded
               THEN [torn EXCEPT !.loaded = TRUE] ELSE NoTorn
    /\ call' = [NoCall EXCEPT !.op = "construct", !.ok = Loads(portfolio_file)]
    /\ UNCHANGED <<dedupVars, supportVars, scoringVars>>

\* buy_stock(symbol, name, price, date): the three checks, the debit, the new
\* position, the transaction record and _save
Buy(symbol, price, outcome) ==
    /\ live
    /\ LET r == BuyStock(data, symbol, price)
       IN  /\ IF r.ok THEN MayFail(outcome) ELSE outcome = "written"
           /\ data' = r.data
           /\ portfolio_file' = IF r.ok THEN Save(portfolio_file, r.data, outcome)
                                ELSE portfolio_file
           /\ saveFailures' = IF r.ok THEN Count(outcome) ELSE saveFailures
           /\ call' = [NoCall EXCEPT !.op = "buy", !.symbol = symbol,
                                     !.price = price, !.raised = r.raised,
                                     !.ok = r.ok, !.msg = r.msg,
                                     !.shares = r.shares]
    /\ live' = live
    /\ torn' = NoTorn
    /\ UNCHANGED <<dedupVars, supportVars, scoringVars>>

\* update_prices(price_dict): the loop over the positions, then _save
UpdatePrices(price_map, outcome) ==
    /\ live
    /\ MayFail(outcome)
    /\ data' = UpdatePricesData(data, price_map)
    /\ portfolio_file' = Save(portfolio_file, data', outcome)
    /\ saveFailures' = Count(outcome)
    /\ call' = [NoCall EXCEPT !.op = "update_prices", !.price_map = price_map,
                              !.ok = TRUE]
    /\ live' = live
    /\ torn' = NoTorn
    /\ UNCHANGED <<dedupVars, supportVars, scoringVars>>

TearPoints == {"before_save", "during_write", "after_write"}

\* the process is torn down while buy_stock runs for a buy that passes the
\* checks: before _save opens the file, after open(..., 'w') truncated it and
\* before json.dump completed, or after the write completed
BuyTornDown(symbol, price, point) ==
    /\ live
    /\ LET r == BuyStock(data, symbol, price)
       IN  /\ r.ok
           /\ portfolio_file' =
                CASE point = "before_save" -> portfolio_file
                  [] point = "during_write" -> TruncatedFile
                  [] point = "after_write" -> FileOf(r.data)
           /\ torn' = [active |-> TRUE, loaded |-> FALSE,
                       synced |-> portfolio_file = FileOf(data),
                       pre |-> data, post |-> r.data]
    /\ live' = FALSE
    /\ data' = NoAccount
    /\ call' = [NoCall EXCEPT !.op = "torn_down", !.symbol = symbol,
                              !.price = price]
    /\ UNCHANGED <<saveFailures, dedupVars, supportVars, scoringVars>>

----------------------------------------------------------------------------
(* The scoring gateway: AIStockAnalyzer.analyze_stock of src/ai_agent.py.  *)
(* The four suggestion values of line 246 are written "strong_buy"         *)
(* (强力买入), "buy" (买入), "watch" (观望) and "avoid" (放弃); "observe"  *)
(* is the near-miss 观察 of line 248 and "hold" stands for any other text. *)
(* A score the service returns is counted in tenths of a point, so that    *)
(* the int() of line 243 has something to truncate.                        *)

valid_suggestions == {"strong_buy", "buy", "watch", "avoid"}

\* what the service may put into the "suggestion" field
ServiceSuggestions == valid_suggestions \cup {"observe", "hold"}

\* what the service may put into the "score" field, in tenths of a point
ServiceScores ==
    {-50, -5, 0, 5, 10, 599, 600, 750, 899, 900, 1000, 1005, 1500}

\* how a service call can end without a usable answer: the call raises, the
\* text is not JSON, a required key is missing, the score is not a number
FailureKinds == {"api_error", "not_json", "missing_key", "score_not_a_number"}

NoReply == [kind |-> "none", score |-> 0, suggestion |-> ""]

Answer(score, suggestion) ==
    [kind |-> "answer", score |-> score, suggestion |-> suggestion]

Failure(kind) == [kind |-> kind, score |-> 0, suggestion |-> ""]

ServiceReplies ==
    {Answer(score, suggestion) :
        score \in ServiceScores, suggestion \in ServiceSuggestions}
    \cup {Failure(kind) : kind \in FailureKinds}

\* a dictionary handed back by return
Returned(score, suggestion, reason) ==
    [raised |-> FALSE, exc |-> "", score |-> score,
     suggestion |-> suggestion, reason |-> reason]

\* an exception on its way up
Raises(exc) ==
    [raised |-> TRUE, exc |-> exc, score |-> 0, suggestion |-> "", reason |-> ""]

NoResult == Returned(0, "", "")

\* _default_result
DefaultResult == Returned(0, "watch", "unavailable")

\* int(x) of a number given in tenths: truncation towards zero
IntOfTenths(t) == IF t >= 0 THEN t \div 10 ELSE -((-t) \div 10)

\* max(0, min(100, score))
ClampScore(score) ==
    LET capped == IF score > 100 THEN 100 ELSE score
    IN  IF capped < 0 THEN 0 ELSE capped

\* a normalisation that lets unknown texts through
NormalizeSuggestionKeepsUnknown(suggestion) == suggestion

\* lines 246-251: texts outside valid_suggestions
NormalizeSuggestion(suggestion) ==
    IF suggestion \notin valid_suggestions
    THEN IF suggestion \in {"buy", "observe"}
         THEN IF suggestion = "buy" THEN "buy" ELSE "watch"
         ELSE "watch"
    ELSE suggestion

\* an adjustment that only downgrades
AdjustSuggestionDowngradeOnly(score, suggestion) ==
    IF score < 60 /\ suggestion \in {"strong_buy", "buy"} THEN "watch"
    ELSE suggestion

\* lines 253-257: the suggestion follows the score
AdjustSuggestion(score, suggestion) ==
    IF score >= 90 /\ suggestion = "buy" THEN "strong_buy"
    ELSE IF score < 60 /\ suggestion \in {"strong_buy", "buy"} THEN "watch"
    ELSE suggestion

\* the body of the try block, lines 217-259
TryBody(reply) ==
    IF reply.kind = "api_error" THEN Raises("Exception")
    ELSE IF reply.kind = "not_json" THEN Raises("JSONDecodeError")
    ELSE IF reply.kind = "missing_key" THEN Raises("ValueError")
    ELSE IF reply.kind = "score_not_a_number" THEN Raises("ValueError")
    ELSE LET score == ClampScore(IntOfTenths(reply.score))
         IN  Returned(score,
                      AdjustSuggestion(score, NormalizeSuggestion(reply.suggestion)),
                      "service")

\* an analyze_stock whose only handler is the one for JSONDecodeError
AnalyzeStockCatchesJsonOnly(reply) ==
    LET r == TryBody(reply)
    IN  IF r.raised /\ r.exc = "JSONDecodeError" THEN DefaultResult ELSE r

\* analyze_stock: the try block and its two handlers, lines 216-268
AnalyzeStock(reply) ==
    LET r == TryBody(reply)
    IN  IF r.raised /\ r.exc = "JSONDecodeError" THEN DefaultResult
        ELSE IF r.raised THEN DefaultResult
        ELSE r

\* the request to the service is out; the service will answer with reply
CallService(reply) ==
    /\ gw_pc = "idle"
    /\ gw_reply' = reply
    /\ gw_pc' = "in_flight"
    /\ UNCHANGED <<gw_result, ledgerVars, dedupVars, supportVars, pipelineVars>>

\* the call ends and analyze_stock returns (or raises) to its caller
ReturnToCaller ==
    /\ gw_pc = "in_flight"
    /\ gw_result' = AnalyzeStock(gw_reply)
    /\ gw_pc' = "returned"
    /\ UNCHANGED <<gw_reply, ledgerVars, dedupVars, supportVars, pipelineVars>>

InitGatewayIdle ==
    /\ gw_pc = "idle"
    /\ gw_reply = NoReply
    /\ gw_result = NoResult

\* no snapshot fetch was made yet
NoFetch == "none"

\* nothing was handed to _print_summary_table yet
NoSummary == [printed |-> FALSE, rows |-> <<>>]

\* the statistics line was not printed
NoStats == [reported |-> FALSE, success |-> 0, fail |-> 0, total |-> 0]

\* no analysis run is under way
InitPipelineIdle ==
    /\ pl_pc = "idle"
    /\ pl_auto_trade = TRUE
    /\ pl_history = <<>>
    /\ pl_rows = <<>>
    /\ pl_fetches = NoFetch
    /\ pl_analyzer = "none"
    /\ pl_batch = <<>>
    /\ pl_idx = 0
    /\ pl_log = <<>>
    /\ pl_high = <<>>
    /\ pl_buys = <<>>
    /\ pl_summary = NoSummary
    /\ pl_raised = FALSE
    /\ pl_success = 0
    /\ pl_fail = 0
    /\ pl_stats = NoStats
    /\ pl_trace = <<>>

\* no operation on the stored rows was made yet
NoStreakCall ==
    [op |-> "none", symbol |-> "", days |-> 0, db_ok |-> TRUE, result |-> 0]

\* no streak query is under way: an empty table on the first day
InitStreakIdle ==
    /\ st_today = 1
    /\ st_table = <<>>
    /\ st_call = NoStreakCall

\* no operation on the status column was made yet
NoStoreCall ==
    [op |-> "none", record_id |-> 0, before |-> "", status |-> "",
     result |-> FALSE, raised |-> FALSE]

\* the stock_analysis table as init_db creates it: no record
InitStoreIdle ==
    /\ sg_status = <<>>
    /\ sg_call = NoStoreCall

\* _fetch_with_retry neither returned nor raised
NoRetryResult == [kind |-> "none", value |-> ""]

\* _fetch_with_retry is not being called
InitRetryIdle ==
    /\ rt_impl = "tenacity"
    /\ rt_pc = "idle"
    /\ rt_events = <<>>
    /\ rt_errors = <<>>
    /\ rt_result = NoRetryResult

\* no pickle file at the path
NoCacheFile == [exists |-> FALSE, timestamp |-> 0, data |-> ""]

\* no operation on the cache was made yet
NoRead ==
    [op |-> "none", trading |-> FALSE, before |-> NoCacheFile,
     fetched |-> "", fetches |-> 0, returned |-> "", source |-> ""]

\* a cold cache: CACHE_DIR holds no realtime_data.pkl, and no src/cache
\* directory exists
InitCacheIdle ==
    /\ ch_now = 0
    /\ ch_ticks = 0
    /\ ch_file = NoCacheFile
    /\ ch_src_copy = NoCacheFile
    /\ ch_read = NoRead

\* the automatic trade is not under way
InitTradeIdle ==
    /\ tr_pc = "idle"
    /\ tr_enabled = FALSE
    /\ tr_stocks = <<>>
    /\ tr_idx = 0
    /\ tr_calls = <<>>
    /\ tr_caught = FALSE

\* nobody has written the cache file or portfolio.json
InitWriterIdle ==
    /\ wr_cache = {}
    /\ wr_ledger = {}

\* no snapshot is being cleaned
InitValidatorIdle ==
    /\ vd_pc = "idle"
    /\ vd_raw = <<>>
    /\ vd_frame = <<>>

\* no strategy was called
NoScan == [strategy |-> "none", rows |-> <<>>]

\* no StrategyScanner exists
InitScanIdle ==
    /\ sc_pc = "idle"
    /\ sc_df = <<>>
    /\ sc_limit = 0
    /\ sc_result = NoScan

InitExtraIdle ==
    /\ InitTradeIdle
    /\ InitWriterIdle
    /\ InitValidatorIdle
    /\ InitScanIdle

InitCoreSupportIdle ==
    /\ InitStreakIdle
    /\ InitStoreIdle
    /\ InitRetryIdle
    /\ InitCacheIdle

InitSupportIdle ==
    /\ InitCoreSupportIdle
    /\ InitExtraIdle

----------------------------------------------------------------------------
(* The ledger: runs over a portfolio.json that is missing or was left by   *)
(* earlier runs.                                                           *)

InitDedupIdle ==
    /\ dd_candidates = <<>>
    /\ dd_unique = <<>>
    /\ dd_twice = <<>>
    /\ dd_pc = "idle"
    /\ dd_max = 0
    /\ dd_batch = <<>>

Init ==
    /\ live = FALSE
    /\ data = NoAccount
    /\ portfolio_file \in {NoFile, FileOf(PriorAccount(MaxPrior))}
    /\ saveFailures = 0
    /\ torn = NoTorn
    /\ call = NoCall
    /\ InitDedupIdle
    /\ InitGatewayIdle
    /\ InitPipelineIdle
    /\ InitSupportIdle

Next ==
    \/ \E outcome \in SaveOutcomes : Construct(outcome)
    \/ \E symbol \in Symbols, price \in Prices, outcome \in SaveOutcomes :
          Buy(symbol, price, outcome)
    \/ \E price_map \in PriceMaps, outcome \in SaveOutcomes :
          UpdatePrices(price_map, outcome)
    \/ \E symbol \in Symbols, price \in Prices, point \in TearPoints :
          BuyTornDown(symbol, price, point)

Spec == Init /\ [][Next]_vars

----------------------------------------------------------------------------
(* Candidate aggregation: _scan_strategies, _add_candidates and            *)
(* _deduplicate_candidates of AutoAnalysisEngine.  A candidate is its      *)
(* symbol and the tag of the strategy that produced it; the market fields  *)
(* are copied along and left out.  The tags stand for the strategy names   *)
(* of lines 233, 239 and 245.                                              *)

StrategyA == "Breakout"

StrategyB == "LimitApproach"

StrategyC == "Accumulation"

\* _add_candidates: one candidate per row of the strategy's output
AddCandidates(rows, candidates, strategy_name) ==
    candidates \o
        [i \in 1..Len(rows) |-> [symbol |-> rows[i], strategy |-> strategy_name]]

\* the loop of a de-duplication that puts each new candidate in front
RECURSIVE DedupLoopPrepend(_, _, _)
DedupLoopPrepend(candidates, seen, unique) ==
    IF candidates = <<>> THEN unique
    ELSE LET candidate == Head(candidates)
         IN  IF candidate.symbol \notin seen
             THEN DedupLoopPrepend(Tail(candidates),
                                   seen \cup {candidate.symbol},
                                   <<candidate>> \o unique)
             ELSE DedupLoopPrepend(Tail(candidates), seen, unique)

\* the loop of a de-duplication in which a later candidate replaces the kept one
RECURSIVE DedupLoopKeepLast(_, _, _)
DedupLoopKeepLast(candidates, seen, unique) ==
    IF candidates = <<>> THEN unique
    ELSE LET candidate == Head(candidates)
         IN  IF candidate.symbol \notin seen
             THEN DedupLoopKeepLast(Tail(candidates),
                                    seen \cup {candidate.symbol},
                                    Append(unique, candidate))
             ELSE DedupLoopKeepLast(Tail(candidates), seen,
                      [i \in 1..Len(unique) |->
                          IF unique[i].symbol = candidate.symbol
                          THEN candidate ELSE unique[i]])

\* the loop of _deduplicate_candidates over the rest of the list
RECURSIVE DedupLoop(_, _, _)
DedupLoop(candidates, seen, unique) ==
    IF candidates = <<>> THEN unique
    ELSE LET candidate == Head(candidates)
         IN  IF candidate.symbol \notin seen
             THEN DedupLoop(Tail(candidates),
                            seen \cup {candidate.symbol},
                            Append(unique, candidate))
             ELSE DedupLoop(Tail(candidates), seen, unique)

DeduplicateCandidates(candidates) == DedupLoop(candidates, {}, <<>>)

\* the outputs a strategy can return: up to MaxPerStrategy rows
StrategyOutputs == UNION {[1..n -> Symbols] : n \in 0..MaxPerStrategy}

\* _scan_strategies: the three outputs, concatenated in the order A, B, C
ScanStrategies(result_a, result_b, result_c) ==
    /\ dd_pc = "idle"
    /\ dd_candidates' =
          AddCandidates(result_c,
              AddCandidates(result_b,
                  AddCandidates(result_a, <<>>, StrategyA), StrategyB), StrategyC)
    /\ dd_pc' = "scanned"
    /\ UNCHANGED <<dd_unique, dd_twice, dd_max, dd_batch, ledgerVars, scoringVars, supportVars>>

\* run_analysis, second stage: unique_candidates = _deduplicate_candidates(..)
Deduplicate ==
    /\ dd_pc = "scanned"
    /\ dd_unique' = DeduplicateCandidates(dd_candidates)
    /\ dd_pc' = "once"
    /\ UNCHANGED <<dd_candidates, dd_twice, dd_max, dd_batch, ledgerVars, scoringVars, supportVars>>

\* _deduplicate_candidates applied to its own result
DeduplicateAgain ==
    /\ dd_pc = "once"
    /\ dd_twice' = DeduplicateCandidates(dd_unique)
    /\ dd_pc' = "twice"
    /\ UNCHANGED <<dd_candidates, dd_unique, dd_max, dd_batch, ledgerVars, scoringVars, supportVars>>

\* a cap that keeps the last max_candidates entries
CapCandidatesTail(unique_candidates, max_candidates) ==
    IF Len(unique_candidates) > max_candidates
    THEN SubSeq(unique_candidates,
                Len(unique_candidates) - max_candidates + 1,
                Len(unique_candidates))
    ELSE unique_candidates

\* run_analysis, lines 175-176: unique_candidates[:max_candidates] when longer
CapCandidates(unique_candidates, max_candidates) ==
    IF Len(unique_candidates) > max_candidates
    THEN SubSeq(unique_candidates, 1, max_candidates)
    ELSE unique_candidates

\* the max_candidates values a run is started with
MaxCandidatesValues == 0..MaxBatch

\* run_analysis, second stage: the cap on the de-duplicated list; the result
\* is the argument of _ai_analysis_pipeline
LimitCandidates(max_candidates) ==
    /\ dd_pc = "once"
    /\ dd_max' = max_candidates
    /\ dd_batch' = CapCandidates(dd_unique, max_candidates)
    /\ dd_pc' = "capped"
    /\ UNCHANGED <<dd_candidates, dd_unique, dd_twice, ledgerVars, scoringVars, supportVars>>

InitLedgerIdle ==
    /\ live = FALSE
    /\ data = NoAccount
    /\ portfolio_file = NoFile
    /\ saveFailures = 0
    /\ torn = NoTorn
    /\ call = NoCall

InitDedup ==
    InitLedgerIdle /\ InitDedupIdle /\ InitGatewayIdle /\ InitPipelineIdle
    /\ InitSupportIdle

\* run_analysis, first stage, for any outputs of the three strategies
Scan ==
    /\ dd_pc = "idle"
    /\ \E result_a \in StrategyOutputs, result_b \in StrategyOutputs,
          result_c \in StrategyOutputs :
          ScanStrategies(result_a, result_b, result_c)

NextDedup ==
    \/ Scan
    \/ Deduplicate
    \/ DeduplicateAgain
    \/ \E max_candidates \in MaxCandidatesValues : LimitCandidates(max_candidates)

SpecDedup == InitDedup /\ [][NextDedup]_vars

----------------------------------------------------------------------------
(* The scoring gateway on its own: one analyze_stock call for every answer *)
(* the service can give.                                                   *)

InitGateway ==
    InitLedgerIdle /\ InitDedupIdle /\ InitGatewayIdle /\ InitPipelineIdle
    /\ InitSupportIdle

\* the service's answer is any of ServiceReplies
Call ==
    /\ gw_pc = "idle"
    /\ \E reply \in ServiceReplies : CallService(reply)

NextGateway ==
    \/ Call
    \/ ReturnToCaller

SpecGateway == InitGateway /\ [][NextGateway]_vars

----------------------------------------------------------------------------
(* One analysis run: AutoAnalysisEngine.run_analysis with                  *)
(* _ai_analysis_pipeline, check_streak and the automatic trade.  A         *)
(* calendar day is a number; a stock_analysis row is its symbol, the day   *)
(* of created_at, ai_score (the empty set for NULL, {n} for the integer n),*)
(* ai_suggestion and status.                                               *)

\* PortfolioConfig.STREAK_THRESHOLD
STREAK_THRESHOLD == 2

\* score_threshold of run_analysis
SCORE_THRESHOLD == 75

\* days=5 of the check_streak call
STREAK_DAYS == 5

\* DATE('now'): the day of the run
Today == 7

\* the price of every candidate in the snapshot
SnapshotPrice == 1050

\* a row as insert_df leaves it: status and created_at take the column
\* defaults 'New' and CURRENT_TIMESTAMP of the table
Row(symbol, day, ai_score, ai_suggestion) ==
    [symbol |-> symbol, day |-> day, ai_score |-> ai_score,
     ai_suggestion |-> ai_suggestion, status |-> "New"]

\* what earlier runs can have stored for one symbol: <<day, score>> pairs
PastScorings ==
    { <<>>,
      << <<Today - 1, 80>> >>,
      << <<Today - 2, 80>>, <<Today - 1, 80>> >>,
      << <<Today - 3, 80>>, <<Today - 2, 80>>, <<Today - 1, 80>> >>,
      << <<Today - STREAK_DAYS - 1, 80>>, <<Today - 2, 70>>,
         <<Today - 1, 80>>, <<Today - 1, 85>>, <<Today, 80>> >> }

PastRows(symbol, scorings) ==
    [i \in 1..Len(scorings) |->
        Row(symbol, scorings[i][1], {scorings[i][2]}, "buy")]

\* the table before the run: the rows of the symbols 1..n
RECURSIVE HistoryOf(_, _)
HistoryOf(h, n) ==
    IF n = 0 THEN <<>> ELSE HistoryOf(h, n - 1) \o PastRows(n, h[n])

Histories == {HistoryOf(h, NumSymbols) : h \in [Symbols -> PastScorings]}

\* ai_score >= threshold in SQL: never true of NULL
ScoreAtLeast(row, threshold) == \E v \in row.ai_score : v >= threshold

\* the rows the WHERE clause of check_streak selects, by their position:
\* symbol = ..., ai_score >= score_threshold,
\* DATE(created_at) >= DATE('now', '-days days'), DATE(created_at) < DATE('now')
StreakRows(table, symbol, days, score_threshold, today) ==
    {k \in 1..Len(table) :
        /\ table[k].symbol = symbol
        /\ ScoreAtLeast(table[k], score_threshold)
        /\ table[k].day >= today - days
        /\ table[k].day < today}

\* a query that counts the selected rows: COUNT(*)
StreakCountRows(table, symbol, days, score_threshold, today) ==
    Cardinality(StreakRows(table, symbol, days, score_threshold, today))

\* a query whose window ends with the day of the query:
\* DATE(created_at) > DATE('now', '-days days'), DATE(created_at) <= DATE('now')
StreakCountThroughToday(table, symbol, days, score_threshold, today) ==
    Cardinality({table[k].day : k \in {i \in 1..Len(table) :
        /\ table[i].symbol = symbol
        /\ ScoreAtLeast(table[i], score_threshold)
        /\ table[i].day > today - days
        /\ table[i].day <= today}})

\* the query of check_streak: COUNT(DISTINCT DATE(created_at))
StreakCount(table, symbol, days, score_threshold, today) ==
    Cardinality({table[k].day :
        k \in StreakRows(table, symbol, days, score_threshold, today)})

\* check_streak(symbol, days=5, score_threshold=75) on the day of the run
CheckStreak(table, symbol) ==
    StreakCount(table, symbol, STREAK_DAYS, SCORE_THRESHOLD, Today)

\* how _fetch_with_retry(_fetch) can end: with the snapshot, with an empty
\* frame, or by re-raising the error of its last attempt
FetchResults == {"frame", "empty", "raised"}

FetchWithRetry(fetched) ==
    [raised |-> fetched = "raised", empty |-> fetched # "frame"]

\* a fetch_realtime_data that lets the error of the last attempt through
FetchRealtimeDataReraises(fetched) == FetchWithRetry(fetched)

\* fetch_realtime_data, lines 193-202: the error is logged and an empty frame
\* is returned, as it is for an empty answer
FetchRealtimeData(fetched) ==
    LET r == FetchWithRetry(fetched)
    IN  IF r.raised THEN [r EXCEPT !.raised = FALSE] ELSE r

\* _print_summary_table(rows)
Summary(rows) == [printed |-> TRUE, rows |-> rows]

\* one call made by the run: the stage or function called, and the symbol it
\* was called for (0 for a call that is not about one symbol)
Event(ev, symbol) == [ev |-> ev, symbol |-> symbol]

\* run_analysis, first stage: the snapshot fetch of _scan_strategies; an empty
\* frame ends the run with an empty summary
FetchSnapshot(fetched) ==
    /\ pl_pc = "start"
    /\ LET df == FetchRealtimeData(fetched)
       IN  /\ pl_fetches' = fetched
           /\ pl_raised' = df.raised
           /\ pl_pc' = IF df.raised \/ df.empty THEN "done" ELSE "scan"
           /\ pl_summary' = IF ~df.raised /\ df.empty THEN Summary(<<>>)
                            ELSE pl_summary
           /\ pl_trace' = IF ~df.raised /\ df.empty
                          THEN <<Event("scan", 0), Event("summary", 0)>>
                          ELSE <<Event("scan", 0)>>
    /\ UNCHANGED <<pl_auto_trade, pl_history, pl_rows, pl_analyzer, pl_batch,
                   pl_idx, pl_log, pl_high, pl_buys, pl_success, pl_fail,
                   pl_stats,
                   ledgerVars, dedupVars, supportVars, gatewayVars>>

\* the capped lists a scan can end in: distinct symbols, at most MaxBatch
Batches ==
    {[i \in 1..n |-> i] :
        n \in {k \in 0..MaxBatch : k <= NumSymbols}}

\* run_analysis, scan and second stage, the snapshot being there: when the
\* strategies found nothing the run ends with an empty summary, otherwise
\* _ai_analysis_pipeline is entered with the capped list
ScanAndLimit(found, batch) ==
    /\ pl_pc = "scan"
    /\ found \/ batch = <<>>
    /\ pl_batch' = batch
    /\ pl_pc' = IF found THEN "init" ELSE "done"
    /\ pl_summary' = IF found THEN pl_summary ELSE Summary(<<>>)
    /\ pl_trace' = Append(pl_trace, IF found THEN Event("deduplicate", 0)
                                    ELSE Event("summary", 0))
    /\ UNCHANGED <<pl_auto_trade, pl_history, pl_rows, pl_fetches, pl_analyzer,
                   pl_idx, pl_log, pl_high, pl_buys, pl_raised, pl_success,
                   pl_fail, pl_stats,
                   ledgerVars, dedupVars, supportVars, gatewayVars>>

\* _ai_analysis_pipeline, lines 305-311: AIStockAnalyzer() is constructed, or
\* raises (no API key) and the pipeline returns the empty list
InitAnalyzer(constructed) ==
    /\ pl_pc = "init"
    /\ pl_idx' = 1
    /\ pl_pc' = IF ~constructed THEN "done"
                ELSE IF pl_batch = <<>> THEN "trend" ELSE "loop"
    /\ pl_summary' = IF constructed THEN pl_summary ELSE Summary(<<>>)
    /\ pl_analyzer' = IF constructed THEN "constructed" ELSE "failed"
    /\ pl_success' = 0
    /\ pl_fail' = 0
    /\ pl_trace' = IF constructed THEN pl_trace
                   ELSE Append(pl_trace, Event("summary", 0))
    /\ UNCHANGED <<pl_auto_trade, pl_history, pl_rows, pl_fetches, pl_batch,
                   pl_log, pl_high, pl_buys, pl_raised, pl_stats,
                   ledgerVars, dedupVars, supportVars, gatewayVars>>

\* what the scoring service answers during a run
PipelineReplies ==
    {Failure("api_error"), Answer(-50, "buy"), Answer(600, "buy"),
     Answer(1500, "buy")}

\* the row built in lines 382-394: ai_score is int(score) when score > 0 and
\* None (NULL) otherwise
SaveData(symbol, result) ==
    Row(symbol, Today,
        IF result.score > 0 THEN {result.score} ELSE {},
        result.suggestion)

\* the entry of high_score_stocks, lines 361-373
HighScoreStock(symbol, result) ==
    [symbol |-> symbol, price |-> SnapshotPrice, score |-> result.score,
     streak_count |-> 0]

\* an insert_df that replaces the rows of the table: if_exists='replace'
InsertDfReplace(table, row) == <<row>>

\* insert_df(df, 'stock_analysis', if_exists='append') for the one-row frame:
\* to_sql adds the row after the rows of the table
InsertDf(table, row) == Append(table, row)

\* line 354: the pass counts as a success
CountsAsSuccess(result) == ~result.raised /\ result.score > 0

\* lines 356: success_count after the pass
SuccessCountAfter(success_count, result) ==
    IF CountsAsSuccess(result) THEN success_count + 1 ELSE success_count

\* a fail_count that also counts the insert_df error of the pass
FailCountAfterCountsDbError(fail_count, result, db_ok) ==
    (IF CountsAsSuccess(result) THEN fail_count ELSE fail_count + 1)
    + (IF db_ok THEN 0 ELSE 1)

\* lines 376 and 416: fail_count after the pass; the handler of the insert_df
\* error (lines 408-409) leaves the counters alone
FailCountAfter(fail_count, result, db_ok) ==
    IF CountsAsSuccess(result) THEN fail_count ELSE fail_count + 1

\* a pass that waits only after a scoring that succeeded
PassEventsNoSleepAfterFailure(symbol, result) ==
    IF result.raised THEN <<Event("score", symbol)>>
    ELSE IF result.score > 0
         THEN <<Event("score", symbol), Event("persist", symbol),
                Event("sleep", symbol)>>
         ELSE <<Event("score", symbol), Event("persist", symbol)>>

\* the calls of one pass in their order: analyze_stock (line 348), insert_df
\* (line 405), time.sleep(0.5) (line 412); an exception leaving analyze_stock
\* goes to the handler of line 414, past the insert and the sleep
PassEvents(symbol, result) ==
    IF result.raised THEN <<Event("score", symbol)>>
    ELSE <<Event("score", symbol), Event("persist", symbol),
           Event("sleep", symbol)>>

\* insert_df calls of this run that raised so far
DbFailures == Cardinality({i \in 1..Len(pl_log) : ~pl_log[i].saved})

\* a loop that ends at the first candidate whose scoring gave nothing
AnalyzeCandidateStopsOnFailure(reply, db_ok) ==
    /\ pl_pc = "loop"
    /\ db_ok \/ DbFailures < MaxDbFailures
    /\ LET symbol == pl_batch[pl_idx]
           result == AnalyzeStock(reply)
       IN  /\ pl_log' = Append(pl_log, [symbol |-> symbol, reply |-> reply,
                                        result |-> result, saved |-> db_ok])
           /\ pl_high' = IF result.score > 0 /\ result.score >= SCORE_THRESHOLD
                         THEN Append(pl_high, HighScoreStock(symbol, result))
                         ELSE pl_high
           /\ pl_rows' = IF db_ok THEN Append(pl_rows, SaveData(symbol, result))
                         ELSE pl_rows
           /\ pl_pc' = IF pl_idx = Len(pl_batch) \/ result.score = 0
                       THEN "trend" ELSE "loop"
           /\ pl_success' = SuccessCountAfter(pl_success, result)
           /\ pl_fail' = FailCountAfter(pl_fail, result, db_ok)
           /\ pl_trace' = pl_trace \o PassEvents(symbol, result)
    /\ pl_idx' = pl_idx + 1
    /\ UNCHANGED <<pl_auto_trade, pl_history, pl_fetches, pl_analyzer, pl_batch,
                   pl_buys, pl_summary, pl_raised, pl_stats,
                   ledgerVars, dedupVars, supportVars, gatewayVars>>

\* one pass of the loop of lines 318-417 for the candidate at pl_idx: sector
\* lookup, analyze_stock, the high-score list, insert_df (whose error is
\* logged), and on to the next candidate; an exception of the pass is caught
\* by the handler of line 414, which also goes on
AnalyzeCandidate(reply, db_ok) ==
    /\ pl_pc = "loop"
    /\ db_ok \/ DbFailures < MaxDbFailures
    /\ LET symbol == pl_batch[pl_idx]
           result == AnalyzeStock(reply)
       IN  /\ pl_log' = Append(pl_log, [symbol |-> symbol, reply |-> reply,
                                        result |-> result,
                                        saved |-> db_ok /\ ~result.raised])
           /\ pl_high' = IF /\ ~result.raised
                            /\ result.score > 0
                            /\ result.score >= SCORE_THRESHOLD
                         THEN Append(pl_high, HighScoreStock(symbol, result))
                         ELSE pl_high
           /\ pl_rows' = IF db_ok /\ ~result.raised
                         THEN InsertDf(pl_rows, SaveData(symbol, result))
                         ELSE pl_rows
           /\ pl_success' = SuccessCountAfter(pl_success, result)
           /\ pl_fail' = FailCountAfter(pl_fail, result, db_ok)
           /\ pl_trace' = pl_trace \o PassEvents(symbol, result)
    /\ pl_idx' = pl_idx + 1
    /\ pl_pc' = IF pl_idx = Len(pl_batch) THEN "trend" ELSE "loop"
    /\ UNCHANGED <<pl_auto_trade, pl_history, pl_fetches, pl_analyzer, pl_batch,
                   pl_buys, pl_summary, pl_raised, pl_stats,
                   ledgerVars, dedupVars, supportVars, gatewayVars>>

\* lines 432-441: every high-score stock gets its streak count
WithTrend(high, table) ==
    [i \in 1..Len(high) |->
        [high[i] EXCEPT !.streak_count = CheckStreak(table, high[i].symbol)]]

\* a trigger that asks for more than the threshold
TriggersAboveThreshold(streak_count) == streak_count > STREAK_THRESHOLD

\* line 461: the streak count has reached the threshold
Triggers(streak_count) == streak_count >= STREAK_THRESHOLD

\* the loop of lines 457-479 over the rest of the high-score stocks
RECURSIVE TradeLoop(_, _, _)
TradeLoop(stocks, d, buys) ==
    IF stocks = <<>> THEN [data |-> d, buys |-> buys]
    ELSE LET stock == Head(stocks)
         IN  IF Triggers(stock.streak_count)
             THEN TradeLoop(Tail(stocks),
                            BuyStock(d, stock.symbol, stock.price).data,
                            Append(buys, stock.symbol))
             ELSE TradeLoop(Tail(stocks), d, buys)

\* the ledger as the trade leaves it
Traded(f, stocks) ==
    LET d == LoadOrCreate(f)
        created == IF Loads(f) THEN f ELSE Save(f, DefaultAccount, "written")
        t == TradeLoop(stocks, d, <<>>)
    IN  [live |-> TRUE, data |-> t.data, buys |-> t.buys,
         file |-> IF t.data = d THEN created ELSE Save(created, t.data, "written")]

\* an automatic trade that does not look at the flag
AutoTradeAlways(enabled, f, stocks) == Traded(f, stocks)

\* lines 445-490: with AUTO_TRADE_ENABLED a PortfolioManager is constructed
\* and buy_stock is called for every stock that triggers; without it the
\* ledger is not touched.  Every _save of the step writes the file.
AutoTrade(enabled, f, stocks) ==
    IF enabled THEN Traded(f, stocks)
    ELSE [live |-> live, data |-> data, buys |-> <<>>, file |-> f]

\* lines 420-427: the statistics printed when the loop has ended
Statistics(success_count, fail_count, candidates) ==
    [reported |-> TRUE, success |-> success_count, fail |-> fail_count,
     total |-> Len(candidates)]

\* calls after the loop with the buy of a stock right behind its streak query
TrendEventsInterleaved(with_trend, buys) ==
    LET RECURSIVE Each(_)
        Each(i) ==
            IF i > Len(with_trend) THEN <<>>
            ELSE <<Event("streak", with_trend[i].symbol)>>
                 \o (IF \E j \in 1..Len(buys) : buys[j] = with_trend[i].symbol
                     THEN <<Event("buy", with_trend[i].symbol)>> ELSE <<>>)
                 \o Each(i + 1)
    IN  Each(1) \o <<Event("summary", 0)>>

\* the calls after the loop in their order: check_streak for every high-score
\* stock (lines 431-440), then buy_stock for those that trigger (lines
\* 457-472), then _print_summary_table (line 192)
TrendEvents(with_trend, buys) ==
    [i \in 1..Len(with_trend) |-> Event("streak", with_trend[i].symbol)]
    \o [j \in 1..Len(buys) |-> Event("buy", buys[j])]
    \o <<Event("summary", 0)>>

\* _ai_analysis_pipeline after the loop, and the end of run_analysis:
\* statistics, streak counts, automatic trade, summary table
TrendAndTrade ==
    /\ pl_pc = "trend"
    /\ LET with_trend == WithTrend(pl_high, pl_history \o pl_rows)
           traded == AutoTrade(pl_auto_trade, portfolio_file, with_trend)
       IN  /\ pl_high' = with_trend
           /\ pl_buys' = traded.buys
           /\ live' = traded.live
           /\ data' = traded.data
           /\ portfolio_file' = traded.file
           /\ pl_summary' = Summary(with_trend)
           /\ pl_trace' = pl_trace \o TrendEvents(with_trend, traded.buys)
    /\ pl_stats' = Statistics(pl_success, pl_fail, pl_batch)
    /\ pl_pc' = "done"
    /\ UNCHANGED <<pl_auto_trade, pl_history, pl_rows, pl_fetches, pl_analyzer,
                   pl_batch, pl_idx, pl_log, pl_raised, pl_success, pl_fail,
                   saveFailures, torn, call, dedupVars, supportVars, gatewayVars>>

\* a ledger file in which the first symbol is already held
HeldFile == FileOf(BuyStock(DefaultAccount, 1, SnapshotPrice).data)

\* a run starts: earlier runs left their rows and perhaps a portfolio.json
InitPipeline ==
    /\ live = FALSE
    /\ data = NoAccount
    /\ portfolio_file \in {NoFile, HeldFile}
    /\ saveFailures = 0
    /\ torn = NoTorn
    /\ call = NoCall
    /\ InitDedupIdle
    /\ InitGatewayIdle
    /\ InitSupportIdle
    /\ pl_pc = "start"
    /\ pl_auto_trade \in BOOLEAN
    /\ pl_history \in Histories
    /\ pl_rows = <<>>
    /\ pl_fetches = NoFetch
    /\ pl_analyzer = "none"
    /\ pl_batch = <<>>
    /\ pl_idx = 0
    /\ pl_log = <<>>
    /\ pl_high = <<>>
    /\ pl_buys = <<>>
    /\ pl_summary = NoSummary
    /\ pl_raised = FALSE
    /\ pl_success = 0
    /\ pl_fail = 0
    /\ pl_stats = NoStats
    /\ pl_trace = <<>>

Fetch ==
    /\ pl_pc = "start"
    /\ \E fetched \in FetchResults : FetchSnapshot(fetched)

NextPipeline ==
    \/ Fetch
    \/ \E found \in BOOLEAN, batch \in Batches : ScanAndLimit(found, batch)
    \/ \E constructed \in BOOLEAN : InitAnalyzer(constructed)
    \/ \E reply \in PipelineReplies, db_ok \in BOOLEAN :
          AnalyzeCandidate(reply, db_ok)
    \/ TrendAndTrade

SpecPipeline == InitPipeline /\ [][NextPipeline]_vars

----------------------------------------------------------------------------
(* The streak query over the days: rows are stored on the current day, the *)
(* day advances, and check_streak is asked on any day.                     *)

\* the last calendar day of the modelled period (the first is day 1)
MaxDay == 3

\* rows stored in the modelled period
MaxRows == 3

\* the symbols of the stored rows
StreakSymbols == {"Y", "Z"}

\* the scores of the stored rows: just below and at the threshold
StreakScores == {SCORE_THRESHOLD - 1, SCORE_THRESHOLD}

\* the days argument of check_streak: yesterday only, and the default
StreakWindows == {1, STREAK_DAYS}

StreakCall(op, symbol, days, db_ok, result) ==
    [op |-> op, symbol |-> symbol, days |-> days, db_ok |-> db_ok,
     result |-> result]

\* check_streak: the count of the query, 0 when the query raises
CheckStreakOn(table, symbol, days, score_threshold, today, db_ok) ==
    IF db_ok
    THEN StreakCount(table, symbol, days, score_threshold, today)
    ELSE 0

\* a run stores the scoring of a symbol: created_at is the current day
InsertRow(symbol, score) ==
    /\ Len(st_table) < MaxRows
    /\ st_table' = Append(st_table, Row(symbol, st_today, {score}, "buy"))
    /\ st_call' = StreakCall("insert", symbol, 0, TRUE, 0)
    /\ UNCHANGED <<st_today, ledgerVars, dedupVars, scoringVars,
                   storeVars, retryVars, cacheVars,
                   extraVars>>

\* midnight: DATE('now') moves on
NextDay ==
    /\ st_today < MaxDay
    /\ st_today' = st_today + 1
    /\ st_call' = StreakCall("next_day", "", 0, TRUE, 0)
    /\ UNCHANGED <<st_table, ledgerVars, dedupVars, scoringVars,
                   storeVars, retryVars, cacheVars,
                   extraVars>>

\* check_streak(symbol, days, score_threshold) is called
QueryStreak(symbol, days, db_ok) ==
    /\ st_call' = StreakCall("check_streak", symbol, days, db_ok,
                     CheckStreakOn(st_table, symbol, days, SCORE_THRESHOLD,
                                   st_today, db_ok))
    /\ UNCHANGED <<st_today, st_table, ledgerVars, dedupVars, scoringVars,
                   storeVars, retryVars, cacheVars,
                   extraVars>>

InitStreak ==
    InitLedgerIdle /\ InitDedupIdle /\ InitGatewayIdle /\ InitPipelineIdle
    /\ InitSupportIdle

NextStreak ==
    \/ \E symbol \in StreakSymbols, score \in StreakScores :
          InsertRow(symbol, score)
    \/ NextDay
    \/ \E symbol \in StreakSymbols, days \in StreakWindows, db_ok \in BOOLEAN :
          QueryStreak(symbol, days, db_ok)

SpecStreak == InitStreak /\ [][NextStreak]_vars

----------------------------------------------------------------------------
(* The signal store: the status column of stock_analysis, written by the   *)
(* column default on insert and by update_status (src/src/database/        *)
(* database.py), which the dashboard calls from its buttons (src/app.py).  *)
(* The id of a record is its position: INTEGER PRIMARY KEY AUTOINCREMENT.  *)

\* records stored in the modelled period
MaxRecords == 3

\* valid_statuses of update_status
valid_statuses == {"New", "Watchlist", "Ignored"}

\* the status argument of update_status: the valid values, an unknown word
\* and a valid word in the wrong case
StatusValues == valid_statuses \cup {"Bought", "new"}

\* the record_id argument: the stored ids and one that is not stored
RecordIds == 1..(MaxRecords + 1)

\* before: the status of the record when the operation began
StoreCall(op, record_id, before, status, result, raised) ==
    [op |-> op, record_id |-> record_id, before |-> before,
     status |-> status, result |-> result, raised |-> raised]

\* an update_status without the check of the value
UpdateStatusAnyValue(statuses, record_id, status, db_ok) ==
    IF ~db_ok
    THEN [statuses |-> statuses, result |-> FALSE, raised |-> TRUE]
    ELSE IF record_id \in 1..Len(statuses)
    THEN [statuses |-> [statuses EXCEPT ![record_id] = status],
          result |-> TRUE, raised |-> FALSE]
    ELSE [statuses |-> statuses, result |-> FALSE, raised |-> FALSE]

\* an update_status whose UPDATE has no WHERE id = ?
UpdateStatusEveryRow(statuses, record_id, status, db_ok) ==
    IF status \notin valid_statuses
    THEN [statuses |-> statuses, result |-> FALSE, raised |-> FALSE]
    ELSE IF ~db_ok
    THEN [statuses |-> statuses, result |-> FALSE, raised |-> TRUE]
    ELSE [statuses |-> [i \in 1..Len(statuses) |-> status],
          result |-> Len(statuses) > 0, raised |-> FALSE]

\* update_status(record_id, status): False for a value outside
\* valid_statuses, before the database is touched; the UPDATE of the row with
\* that id, True when rowcount > 0; a database error is rolled back and
\* raised again
UpdateStatus(statuses, record_id, status, db_ok) ==
    IF status \notin valid_statuses
    THEN [statuses |-> statuses, result |-> FALSE, raised |-> FALSE]
    ELSE IF ~db_ok
    THEN [statuses |-> statuses, result |-> FALSE, raised |-> TRUE]
    ELSE IF record_id \in 1..Len(statuses)
    THEN [statuses |-> [statuses EXCEPT ![record_id] = status],
          result |-> TRUE, raised |-> FALSE]
    ELSE [statuses |-> statuses, result |-> FALSE, raised |-> FALSE]

\* a pipeline run stores a scored candidate: status takes the column default
SaveRecord ==
    /\ Len(sg_status) < MaxRecords
    /\ sg_status' = Append(sg_status, "New")
    /\ sg_call' = StoreCall("insert", Len(sg_status) + 1, "", "New", TRUE,
                            FALSE)
    /\ UNCHANGED <<ledgerVars, dedupVars, scoringVars, streakVars,
                   retryVars, cacheVars,
                   extraVars>>

\* update_status is called and returns or raises
CallUpdateStatus(record_id, status, db_ok) ==
    LET r == UpdateStatus(sg_status, record_id, status, db_ok)
    IN  /\ sg_status' = r.statuses
        /\ sg_call' = StoreCall("update_status", record_id,
                                IF record_id \in 1..Len(sg_status)
                                THEN sg_status[record_id] ELSE "",
                                status, r.result, r.raised)
        /\ UNCHANGED <<ledgerVars, dedupVars, scoringVars, streakVars,
                   retryVars, cacheVars,
                   extraVars>>

\* render_signal_card: the three buttons of the card of a listed record,
\* whatever its status
CardButton(record_id, status, db_ok) ==
    /\ record_id \in 1..Len(sg_status)
    /\ status \in {"Watchlist", "Ignored", "New"}
    /\ CallUpdateStatus(record_id, status, db_ok)

\* render_tab_portfolio: the remove button of a record of the watchlist
RemoveFromWatchlist(record_id, db_ok) ==
    /\ record_id \in 1..Len(sg_status)
    /\ sg_status[record_id] = "Watchlist"
    /\ CallUpdateStatus(record_id, "Ignored", db_ok)

InitStore ==
    InitLedgerIdle /\ InitDedupIdle /\ InitGatewayIdle /\ InitPipelineIdle
    /\ InitSupportIdle

NextStore ==
    \/ SaveRecord
    \/ \E record_id \in RecordIds, status \in StatusValues, db_ok \in BOOLEAN :
          CallUpdateStatus(record_id, status, db_ok)
    \/ \E record_id \in RecordIds, status \in valid_statuses, db_ok \in BOOLEAN :
          CardButton(record_id, status, db_ok)
    \/ \E record_id \in RecordIds, db_ok \in BOOLEAN :
          RemoveFromWatchlist(record_id, db_ok)

SpecStore == InitStore /\ [][NextStore]_vars

----------------------------------------------------------------------------
(* The retry executor: one call _fetch_with_retry(func) of                 *)
(* src/src/data/data_loader.py, in the variant built on tenacity and in    *)
(* the fallback loop that is defined when tenacity cannot be imported.     *)

\* stop_after_attempt(3)
STOP_AFTER_ATTEMPT == 3

\* wait_fixed(2)
WAIT_FIXED == 2

\* max_retries: int = 3 of the fallback
max_retries == 3

\* delay: int = 2 of the fallback
delay == 2

\* TENACITY_AVAILABLE: True and False
RetryImpls == {"tenacity", "fallback"}

\* what func() can return: the frame of the provider, or an empty frame
RetryValues == {"frame", "empty"}

\* what func() can raise
RetryErrors == {"timeout", "connection", "parse"}

RetryEvent(kind, what) == [kind |-> kind, what |-> what]

\* the wait between two attempts, in seconds
RetryDelay(impl) == IF impl = "tenacity" THEN WAIT_FIXED ELSE delay

\* the number of the last attempt
MaxAttempts(impl) ==
    IF impl = "tenacity" THEN STOP_AFTER_ATTEMPT ELSE max_retries

\* an executor that allows one attempt more
ShouldRetryOnceMore(impl, attempt) == attempt <= MaxAttempts(impl)

\* after the failed attempt of that number (from 1) another one follows:
\* stop_after_attempt, and "attempt < max_retries - 1" for attempts from 0
ShouldRetry(impl, attempt) == attempt < MaxAttempts(impl)

\* an executor that raises the error of its first attempt
ReraisedFirst(errors) == errors[1]

\* reraise=True, and "raise last_error": the error of the last attempt
Reraised(errors) == errors[Len(errors)]

\* the calls of func so far
RetryCalls(events) == {i \in 1..Len(events) : events[i].kind = "call"}

\* what follows a call of func that raised: a warning before the wait, or,
\* after the last attempt, the error entry of the fallback
AfterFailure(impl, attempt) ==
    IF ShouldRetry(impl, attempt)
    THEN << RetryEvent("warning", "") >>
    ELSE IF impl = "fallback" THEN << RetryEvent("error", "") >> ELSE <<>>

\* _fetch_with_retry(func) is called
CallFetchWithRetry ==
    /\ rt_pc = "idle"
    /\ rt_pc' = "attempt"
    /\ UNCHANGED <<rt_impl, rt_events, rt_errors, rt_result,
                   ledgerVars, dedupVars, scoringVars, streakVars, storeVars,
                   cacheVars,
                   extraVars>>

\* one attempt: func() returns, which ends the call, or raises
Attempt(outcome) ==
    /\ rt_pc = "attempt"
    /\ LET attempt == Cardinality(RetryCalls(rt_events)) + 1
           failed == outcome \in RetryErrors
           errors == IF failed THEN Append(rt_errors, outcome) ELSE rt_errors
       IN  /\ rt_events' = Append(rt_events, RetryEvent("call", outcome))
                              \o (IF failed THEN AfterFailure(rt_impl, attempt)
                                  ELSE <<>>)
           /\ rt_errors' = errors
           /\ rt_pc' = IF ~failed THEN "returned"
                       ELSE IF ShouldRetry(rt_impl, attempt) THEN "sleep"
                       ELSE "raised"
           /\ rt_result' = IF ~failed
                           THEN [kind |-> "returned", value |-> outcome]
                           ELSE IF ShouldRetry(rt_impl, attempt)
                           THEN rt_result
                           ELSE [kind |-> "raised", value |-> Reraised(errors)]
    /\ UNCHANGED <<rt_impl, ledgerVars, dedupVars, scoringVars, streakVars,
                   storeVars, cacheVars,
                   extraVars>>

\* the wait before the next attempt: wait_fixed, time.sleep(delay)
Sleep ==
    /\ rt_pc = "sleep"
    /\ rt_events' = Append(rt_events, RetryEvent("sleep", RetryDelay(rt_impl)))
    /\ rt_pc' = "attempt"
    /\ UNCHANGED <<rt_impl, rt_errors, rt_result,
                   ledgerVars, dedupVars, scoringVars, streakVars, storeVars,
                   cacheVars,
                   extraVars>>

InitRetry ==
    /\ InitLedgerIdle /\ InitDedupIdle /\ InitGatewayIdle /\ InitPipelineIdle
    /\ InitStreakIdle
    /\ InitStoreIdle
    /\ InitCacheIdle
    /\ InitExtraIdle
    /\ rt_impl \in RetryImpls
    /\ rt_pc = "idle"
    /\ rt_events = <<>>
    /\ rt_errors = <<>>
    /\ rt_result = NoRetryResult

NextRetry ==
    \/ CallFetchWithRetry
    \/ \E outcome \in RetryValues \cup RetryErrors : Attempt(outcome)
    \/ Sleep

SpecRetry == InitRetry /\ [][NextRetry]_vars

----------------------------------------------------------------------------
(* The snapshot cache: fetch_realtime_data(use_cache=True) of              *)
(* src/src/data/data_loader.py over the CacheManager of                    *)
(* src/src/utils/cache.py.  A frame is "frame" when it has rows and        *)
(* "empty" when it has none.  The manager keeps its files in CACHE_DIR,    *)
(* PROJECT_ROOT/cache (config.py), PROJECT_ROOT being the parent of the    *)
(* src package; the off-hours branch of fetch_realtime_data opens          *)
(* Path(__file__).parent.parent/'cache', the directory cache inside the    *)
(* src package, which is another directory and which the program never     *)
(* writes.                                                                 *)

\* DataFetch.CACHE_EXPIRE, the expire_seconds of the global CacheManager
CACHE_EXPIRE == 300

\* the 86400 of the off-hours branch
OFF_HOURS_EXPIRE == 86400

\* how often the clock is advanced in the modelled period
MaxTicks == 3

\* the time that passes between two operations, in seconds
Waits == {1, CACHE_EXPIRE, OFF_HOURS_EXPIRE}

\* the frame after cleaning and validation: rows are left, or none
CleanedFrames == {"frame", "empty"}

CacheFile(timestamp, frame) ==
    [exists |-> TRUE, timestamp |-> timestamp, data |-> frame]

\* a CacheManager.get without the check of the age
CacheGetNeverExpires(file, now) ==
    IF ~file.exists
    THEN [file |-> file, data |-> "none"]
    ELSE [file |-> file, data |-> file.data]

\* CacheManager.get: None when there is no file; a file older than
\* expire_seconds is deleted and None is returned; else the data of the file
CacheGet(file, now) ==
    IF ~file.exists
    THEN [file |-> file, data |-> "none"]
    ELSE IF now - file.timestamp > CACHE_EXPIRE
    THEN [file |-> NoCacheFile, data |-> "none"]
    ELSE [file |-> file, data |-> file.data]

\* CacheManager.set: the data with the time of the write
CacheSet(now, frame) == CacheFile(now, frame)

\* a check that takes any cached frame
CacheHitAnyFrame(cached_data) == cached_data # "none"

\* line 177: cached_data is not None and not cached_data.empty
CacheHit(cached_data) == cached_data = "frame"

\* lines 158-174: outside trading hours the pickle file of the src/cache
\* directory is returned when it is less than 24 hours old
OffHoursCopy(copy, now) ==
    [hit |-> copy.exists /\ now - copy.timestamp < OFF_HOURS_EXPIRE,
     data |-> copy.data]

\* fetch_realtime_data with use_cache=True: the off-hours copy, the cache of
\* the manager, and the provider, whose cleaned frame is stored
ReadSnapshot(now, is_trading_time, file, copy, fetched, cleaned) ==
    IF ~is_trading_time /\ OffHoursCopy(copy, now).hit
    THEN [file |-> file, returned |-> OffHoursCopy(copy, now).data,
          fetches |-> 0, source |-> "off_hours_copy"]
    ELSE LET got == CacheGet(file, now)
         IN  IF CacheHit(got.data)
             THEN [file |-> got.file, returned |-> got.data, fetches |-> 0,
                   source |-> "cache"]
             ELSE IF FetchRealtimeData(fetched).empty
             THEN [file |-> got.file, returned |-> "empty", fetches |-> 1,
                   source |-> "provider"]
             ELSE [file |-> CacheSet(now, cleaned), returned |-> cleaned,
                   fetches |-> 1, source |-> "provider"]

\* one call of fetch_realtime_data
Read(is_trading_time, fetched, cleaned) ==
    /\ LET r == ReadSnapshot(ch_now, is_trading_time, ch_file, ch_src_copy,
                             fetched, cleaned)
       IN  /\ ch_file' = r.file
           /\ ch_read' = [op |-> "read", trading |-> is_trading_time,
                          before |-> ch_file, fetched |-> fetched,
                          fetches |-> r.fetches, returned |-> r.returned,
                          source |-> r.source]
    /\ UNCHANGED <<ch_now, ch_ticks, ch_src_copy,
                   ledgerVars, dedupVars, scoringVars, streakVars, storeVars,
                   retryVars,
                   extraVars>>

\* time passes
Tick(wait) ==
    /\ ch_ticks < MaxTicks
    /\ ch_ticks' = ch_ticks + 1
    /\ ch_now' = ch_now + wait
    /\ ch_read' = [NoRead EXCEPT !.op = "tick"]
    /\ UNCHANGED <<ch_file, ch_src_copy,
                   ledgerVars, dedupVars, scoringVars, streakVars, storeVars,
                   retryVars,
                   extraVars>>

\* clear_cache: CacheManager.clear deletes the files of CACHE_DIR
ClearCache ==
    /\ ch_file' = NoCacheFile
    /\ ch_read' = [NoRead EXCEPT !.op = "clear", !.before = ch_file]
    /\ UNCHANGED <<ch_now, ch_ticks, ch_src_copy,
                   ledgerVars, dedupVars, scoringVars, streakVars, storeVars,
                   retryVars,
                   extraVars>>

InitCache ==
    InitLedgerIdle /\ InitDedupIdle /\ InitGatewayIdle /\ InitPipelineIdle
    /\ InitSupportIdle

NextCache ==
    \/ \E is_trading_time \in BOOLEAN, fetched \in FetchResults,
          cleaned \in CleanedFrames :
          Read(is_trading_time, fetched, cleaned)
    \/ \E wait \in Waits : Tick(wait)
    \/ ClearCache

SpecCache == InitCache /\ [][NextCache]_vars

----------------------------------------------------------------------------
(* The automatic trade of _ai_analysis_pipeline, lines 445-490 of          *)
(* src/auto_analysis.py, one pass of its loop at a time.                   *)

\* the longest list of high-score stocks handed to the step
MaxStocks == 2

\* how the pass of one stock can end early: an exception leaves buy_stock, or
\* the report of lines 474-479 raises after buy_stock has returned (a print
\* to a console that cannot encode the text, a closed stdout)
TradeFaults == {"none", "buy_stock", "report"}

\* the streak counts around the threshold
TradeStreakCounts ==
    {STREAK_THRESHOLD - 1, STREAK_THRESHOLD, STREAK_THRESHOLD + 1}

\* high_score_stocks_with_trend as lines 431-440 leave it: distinct symbols
\* at the price of the snapshot, each with its streak count
TrendLists ==
    UNION {{[i \in 1..n |->
                [symbol |-> i, price |-> SnapshotPrice,
                 score |-> SCORE_THRESHOLD, streak_count |-> c[i]]] :
             c \in [1..n -> TradeStreakCounts]} : n \in 0..MaxStocks}

\* one buy_stock call of the step and how the pass ended
TradeCall(symbol, ok, raised) ==
    [symbol |-> symbol, ok |-> ok, raised |-> raised]

\* lines 446-453: the flag is read; with the flag set PortfolioManager() is
\* constructed, which creates and saves the default account when
\* portfolio.json cannot be loaded
StartTrade ==
    /\ tr_pc = "start"
    /\ IF tr_enabled
       THEN /\ live' = TRUE
            /\ data' = LoadOrCreate(portfolio_file)
            /\ portfolio_file' =
                  IF Loads(portfolio_file) THEN portfolio_file
                  ELSE Save(portfolio_file, DefaultAccount, "written")
            /\ tr_pc' = IF tr_stocks = <<>> THEN "summary" ELSE "loop"
       ELSE /\ UNCHANGED <<live, data, portfolio_file>>
            /\ tr_pc' = "done"
    /\ tr_idx' = 1
    /\ UNCHANGED <<tr_enabled, tr_stocks, tr_calls, tr_caught,
                   saveFailures, torn, call, dedupVars, scoringVars,
                   coreSupportVars, writerVars, validatorVars, scanVars>>

\* lines 457-479: one pass of the loop.  A stock below the threshold is
\* passed over; for the others buy_stock is called and its result reported.
\* The loop has no handler of its own: an exception of the pass goes to the
\* handler of line 489, which is outside the loop, and the step is over.
TradePass(fault) ==
    /\ tr_pc = "loop"
    /\ LET stock == tr_stocks[tr_idx]
           r == BuyStock(data, stock.symbol, stock.price)
           onward == IF tr_idx = Len(tr_stocks) THEN "summary" ELSE "loop"
       IN  /\ fault = "none" \/ Triggers(stock.streak_count)
           /\ IF ~Triggers(stock.streak_count)
              THEN /\ UNCHANGED <<data, portfolio_file, tr_calls, tr_caught>>
                   /\ tr_pc' = onward
              ELSE IF fault = "buy_stock" \/ r.raised
              THEN /\ UNCHANGED <<data, portfolio_file>>
                   /\ tr_calls' = Append(tr_calls,
                                     TradeCall(stock.symbol, FALSE, TRUE))
                   /\ tr_caught' = TRUE
                   /\ tr_pc' = "done"
              ELSE /\ data' = r.data
                   /\ portfolio_file' =
                         IF r.ok THEN Save(portfolio_file, r.data, "written")
                         ELSE portfolio_file
                   /\ tr_calls' = Append(tr_calls,
                                     TradeCall(stock.symbol, r.ok,
                                               fault = "report"))
                   /\ tr_caught' = (fault = "report")
                   /\ tr_pc' = IF fault = "report" THEN "done" ELSE onward
    /\ tr_idx' = tr_idx + 1
    /\ UNCHANGED <<tr_enabled, tr_stocks, live,
                   saveFailures, torn, call, dedupVars, scoringVars,
                   coreSupportVars, writerVars, validatorVars, scanVars>>

\* lines 481-485: the account summary is printed after the loop
AccountSummary ==
    /\ tr_pc = "summary"
    /\ tr_pc' = "done"
    /\ UNCHANGED <<tr_enabled, tr_stocks, tr_idx, tr_calls, tr_caught,
                   ledgerVars, dedupVars, scoringVars,
                   coreSupportVars, writerVars, validatorVars, scanVars>>

\* the step is entered with the list of the streak step, over a
\* portfolio.json that is missing or holds the first symbol
InitTrade ==
    /\ live = FALSE
    /\ data = NoAccount
    /\ portfolio_file \in {NoFile, HeldFile}
    /\ saveFailures = 0
    /\ torn = NoTorn
    /\ call = NoCall
    /\ InitDedupIdle /\ InitGatewayIdle /\ InitPipelineIdle
    /\ InitCoreSupportIdle
    /\ InitWriterIdle /\ InitValidatorIdle /\ InitScanIdle
    /\ tr_pc = "start"
    /\ tr_enabled \in BOOLEAN
    /\ tr_stocks \in TrendLists
    /\ tr_idx = 0
    /\ tr_calls = <<>>
    /\ tr_caught = FALSE

NextTrade ==
    \/ StartTrade
    \/ \E fault \in TradeFaults : TradePass(fault)
    \/ AccountSummary

SpecTrade == InitTrade /\ [][NextTrade]_vars

----------------------------------------------------------------------------
(* The processes that run side by side over the cache file and over        *)
(* portfolio.json: the orchestrator (src/auto_analysis.py) and the         *)
(* dashboard (src/app.py).                                                 *)

\* one write to a shared file: the process, and what it did
Write(process, op) == [process |-> process, op |-> op]

\* what a fetch_realtime_data call did to the cache file it found: the
\* cleaned frame was stored (CacheManager.set), or the expired file was
\* deleted (the unlink of CacheManager.get)
CacheWrites(process, before, after) ==
    IF after = before THEN {}
    ELSE IF after.exists THEN {Write(process, "store")}
    ELSE {Write(process, "delete")}

\* the orchestrator's snapshot fetch, auto_analysis.py line 213
OrchestratorScan(is_trading_time, fetched, cleaned) ==
    /\ LET r == ReadSnapshot(ch_now, is_trading_time, ch_file, ch_src_copy,
                             fetched, cleaned)
       IN  /\ ch_file' = r.file
           /\ wr_cache' = wr_cache
                             \cup CacheWrites("orchestrator", ch_file, r.file)
    /\ UNCHANGED <<ch_now, ch_ticks, ch_src_copy, ch_read, wr_ledger,
                   ledgerVars, dedupVars, scoringVars, streakVars, storeVars,
                   retryVars, tradeVars, validatorVars, scanVars>>

\* the orchestrator's automatic trade for one stock that triggers,
\* auto_analysis.py lines 445-490
OrchestratorTrade(symbol) ==
    /\ LET traded == Traded(portfolio_file,
                            <<[symbol |-> symbol, price |-> SnapshotPrice,
                               score |-> SCORE_THRESHOLD,
                               streak_count |-> STREAK_THRESHOLD]>>)
       IN  /\ live' = traded.live
           /\ data' = traded.data
           /\ portfolio_file' = traded.file
           /\ wr_ledger' = IF traded.file = portfolio_file THEN wr_ledger
                           ELSE wr_ledger \cup {Write("orchestrator", "save")}
    /\ UNCHANGED <<saveFailures, torn, call, wr_cache,
                   dedupVars, scoringVars, coreSupportVars,
                   tradeVars, validatorVars, scanVars>>

\* the dashboard's load_market_data, app.py lines 295-298: the same
\* fetch_realtime_data(use_cache=True), in the process of the dashboard
DashboardLoadMarketData(is_trading_time, fetched, cleaned) ==
    /\ LET r == ReadSnapshot(ch_now, is_trading_time, ch_file, ch_src_copy,
                             fetched, cleaned)
       IN  /\ ch_file' = r.file
           /\ wr_cache' = wr_cache
                             \cup CacheWrites("dashboard", ch_file, r.file)
    /\ UNCHANGED <<ch_now, ch_ticks, ch_src_copy, ch_read, wr_ledger,
                   ledgerVars, dedupVars, scoringVars, streakVars, storeVars,
                   retryVars, tradeVars, validatorVars, scanVars>>

\* the buttons of the dashboard that call clear_cache, app.py lines 500-502
\* and 689-691: CacheManager.clear deletes the files of CACHE_DIR
DashboardClearCache ==
    /\ ch_file' = NoCacheFile
    /\ wr_cache' = wr_cache \cup {Write("dashboard", "clear")}
    /\ UNCHANGED <<ch_now, ch_ticks, ch_src_copy, ch_read, wr_ledger,
                   ledgerVars, dedupVars, scoringVars, streakVars, storeVars,
                   retryVars, tradeVars, validatorVars, scanVars>>

\* both processes are started over a cold cache and no portfolio.json
InitWriters ==
    InitLedgerIdle /\ InitDedupIdle /\ InitGatewayIdle /\ InitPipelineIdle
    /\ InitSupportIdle

NextWriters ==
    \/ \E is_trading_time \in BOOLEAN, fetched \in FetchResults,
          cleaned \in CleanedFrames :
          OrchestratorScan(is_trading_time, fetched, cleaned)
    \/ \E symbol \in Symbols : OrchestratorTrade(symbol)
    \/ \E is_trading_time \in BOOLEAN, fetched \in FetchResults,
          cleaned \in CleanedFrames :
          DashboardLoadMarketData(is_trading_time, fetched, cleaned)
    \/ DashboardClearCache
    \/ \E wait \in Waits : Tick(wait)

SpecWriters == InitWriters /\ [][NextWriters]_vars

----------------------------------------------------------------------------
(* The cleaning of a fetched snapshot, fetch_realtime_data lines 233-276   *)
(* of src/src/data/data_loader.py, and DataValidator.validate_dataframe of *)
(* src/src/utils/validator.py.  Prices, percentages and volumes are        *)
(* counted in hundredths; a cell of a numeric column holds a number or NaN.*)

\* class DataValidation of src/src/config.py, in hundredths
MIN_PRICE == 1

MAX_PRICE == 100000

MIN_CHANGE_PCT == -2000

MAX_CHANGE_PCT == 2000

MIN_TURNOVER == 0

MAX_TURNOVER == 20000

MIN_VOLUME == 0

\* the longest frame that is cleaned
MaxFrameRows == 2

NaN == [nan |-> TRUE, v |-> 0]

Num(v) == [nan |-> FALSE, v |-> v]

\* Series.notna()
NotNa(cell) == ~cell.nan

\* series >= bound, series <= bound, series > bound: False for NaN
Ge(cell, bound) == ~cell.nan /\ cell.v >= bound

Le(cell, bound) == ~cell.nan /\ cell.v <= bound

Gt(cell, bound) == ~cell.nan /\ cell.v > bound

SnapshotRow(symbol, price, change_pct, turnover, volume) ==
    [symbol |-> symbol, price |-> price, change_pct |-> change_pct,
     turnover |-> turnover, volume |-> volume]

\* the rows a provider frame is made of: one unremarkable row, and rows in
\* which one cell is missing, on a bound or beyond it
RowVariants(symbol) ==
    LET row(p, c, t, v) == SnapshotRow(symbol, p, c, t, v)
        price == Num(1050)
        change == Num(500)
        turnover == Num(1000)
        volume == Num(10000)
    IN  {row(price, change, turnover, volume)}
        \cup {row(p, change, turnover, volume) :
                 p \in {NaN, Num(0), Num(MIN_PRICE), Num(MAX_PRICE),
                        Num(MAX_PRICE + 1)}}
        \cup {row(price, c, turnover, volume) :
                 c \in {NaN, Num(MIN_CHANGE_PCT - 1), Num(MIN_CHANGE_PCT),
                        Num(MAX_CHANGE_PCT + 1)}}
        \cup {row(price, change, t, volume) :
                 t \in {NaN, Num(MIN_TURNOVER - 1), Num(MAX_TURNOVER + 1)}}
        \cup {row(price, change, turnover, v) :
                 v \in {NaN, Num(MIN_VOLUME - 1), Num(MIN_VOLUME)}}

\* the frames of the provider: row i is about symbol i
RawFrames ==
    UNION {{f \in [1..n -> UNION {RowVariants(i) : i \in 1..n}] :
               \A i \in 1..n : f[i] \in RowVariants(i)} : n \in 0..MaxFrameRows}

\* lines 241-250: in trading hours the rows with volume > 0 are kept,
\* outside them the rows with price > 0
TradedRows(df, is_trading_time) ==
    IF is_trading_time THEN SelectSeq(df, LAMBDA row : Gt(row.volume, 0))
    ELSE SelectSeq(df, LAMBDA row : Gt(row.price, 0))

\* line 261: df.dropna(subset=['price', 'change_pct'])
DropNa(df) ==
    SelectSeq(df, LAMBDA row : NotNa(row.price) /\ NotNa(row.change_pct))

\* a price check without the upper bound
PriceValidNoUpperBound(row) ==
    NotNa(row.price) /\ Ge(row.price, MIN_PRICE)

\* validator.py lines 136-139
PriceValid(row) ==
    NotNa(row.price) /\ Ge(row.price, MIN_PRICE) /\ Le(row.price, MAX_PRICE)

\* lines 143-146
ChangeValid(row) ==
    /\ NotNa(row.change_pct)
    /\ Ge(row.change_pct, MIN_CHANGE_PCT)
    /\ Le(row.change_pct, MAX_CHANGE_PCT)

\* lines 150-153: a missing turnover is let through
TurnoverValid(row) ==
    \/ row.turnover.nan
    \/ Ge(row.turnover, MIN_TURNOVER) /\ Le(row.turnover, MAX_TURNOVER)

\* lines 157-159
VolumeValid(row) == NotNa(row.volume) /\ Ge(row.volume, MIN_VOLUME)

\* valid_mask
ValidMask(row) ==
    PriceValid(row) /\ ChangeValid(row) /\ TurnoverValid(row)
        /\ VolumeValid(row)

\* validate_dataframe: df[valid_mask].copy() and df[~valid_mask].copy()
ValidateDataframe(df) ==
    [valid |-> SelectSeq(df, ValidMask),
     invalid |-> SelectSeq(df, LAMBDA row : ~ValidMask(row))]

\* clean_dataframe
CleanDataframe(df) == ValidateDataframe(df).valid

\* fetch_realtime_data, lines 233-270: the rows without trade (or without
\* price), then the rows without price or change, are dropped; the numeric
\* columns, already numeric, go through pd.to_numeric unchanged
CleanSnapshot(is_trading_time) ==
    /\ vd_pc = "fetched"
    /\ vd_frame' = DropNa(TradedRows(vd_frame, is_trading_time))
    /\ vd_raw' = vd_frame'
    /\ vd_pc' = "cleaned"
    /\ UNCHANGED <<ledgerVars, dedupVars, scoringVars, coreSupportVars,
                   tradeVars, writerVars, scanVars>>

\* lines 272-275: with validate=True the frame goes through
\* DataValidator().clean_dataframe
ValidateSnapshot(validate) ==
    /\ vd_pc = "cleaned"
    /\ vd_frame' = IF validate THEN CleanDataframe(vd_frame) ELSE vd_frame
    /\ vd_pc' = IF validate THEN "validated" ELSE "not_validated"
    /\ UNCHANGED <<vd_raw, ledgerVars, dedupVars, scoringVars,
                   coreSupportVars, tradeVars, writerVars, scanVars>>

\* the provider has returned a frame
InitValidator ==
    /\ InitLedgerIdle /\ InitDedupIdle /\ InitGatewayIdle /\ InitPipelineIdle
    /\ InitCoreSupportIdle
    /\ InitTradeIdle /\ InitWriterIdle /\ InitScanIdle
    /\ vd_pc = "fetched"
    /\ vd_frame \in RawFrames
    /\ vd_raw = <<>>

NextValidator ==
    \/ \E is_trading_time \in BOOLEAN : CleanSnapshot(is_trading_time)
    \/ \E validate \in BOOLEAN : ValidateSnapshot(validate)

SpecValidator == InitValidator /\ [][NextValidator]_vars

----------------------------------------------------------------------------
(* The three strategies of StrategyScanner, src/src/strategies/            *)
(* strategies.py.  Prices, change_pct and turnover are counted in          *)
(* hundredths, circ_mv in units of 10^8 yuan.                              *)

\* the longest frame handed to the StrategyScanner
MaxSnapshotRows == 3

\* the largest limit argument
MaxLimit == 2

Strategies == {"volume_breakout", "limit_candidates", "turtle_stocks"}

ScanRow(symbol, price, change_pct, turnover, circ_mv) ==
    [symbol |-> symbol, price |-> price, change_pct |-> change_pct,
     turnover |-> turnover, circ_mv |-> circ_mv]

\* the rows of a validated snapshot that the filters tell apart: inside one
\* filter, on the bound shared by two, outside all, without turnover
ScanVariants(symbol) ==
    {ScanRow(symbol, Num(2000), Num(600), Num(1000), Num(50)),
     ScanRow(symbol, Num(2000), Num(700), Num(1200), Num(50)),
     ScanRow(symbol, Num(2000), Num(600), Num(1400), Num(300)),
     ScanRow(symbol, Num(2000), Num(900), Num(900), Num(50)),
     ScanRow(symbol, Num(2000), Num(1500), Num(1000), Num(50)),
     ScanRow(symbol, Num(2000), Num(800), Num(1100), Num(50)),
     ScanRow(symbol, Num(2000), Num(300), Num(700), Num(50)),
     ScanRow(symbol, Num(2000), Num(900), NaN, Num(50))}

\* the frames of the scanner: row i is about symbol i
ScanFrames ==
    UNION {{f \in [1..n -> UNION {ScanVariants(i) : i \in 1..n}] :
               \A i \in 1..n : f[i] \in ScanVariants(i)} :
           n \in 0..MaxSnapshotRows}

\* the mask of the strategy: lines 153-162, 217-221 and 274-278
StrategyMask(strategy, row) ==
    CASE strategy = "volume_breakout" ->
            /\ Ge(row.change_pct, 500) /\ Le(row.change_pct, 800)
            /\ Ge(row.turnover, 700) /\ Le(row.turnover, 1500)
            /\ Ge(row.circ_mv, 10) /\ Le(row.circ_mv, 200)
            /\ Ge(row.price, 500) /\ Le(row.price, 200000)
      [] strategy = "limit_candidates" ->
            /\ Ge(row.change_pct, 800) /\ Le(row.change_pct, 2000)
            /\ Gt(row.turnover, 800)
      [] strategy = "turtle_stocks" ->
            /\ Ge(row.change_pct, 200) /\ Le(row.change_pct, 500)
            /\ Gt(row.turnover, 600)

\* the column of sort_values: lines 170, 229 and 286
RankingKey(strategy, row) ==
    IF strategy = "limit_candidates" THEN row.change_pct.v
    ELSE row.turnover.v

\* _standardize_output: the output columns only
StandardizeOutput(rows) ==
    [i \in 1..Len(rows) |->
        [symbol |-> rows[i].symbol, price |-> rows[i].price,
         change_pct |-> rows[i].change_pct, turnover |-> rows[i].turnover]]

\* sort_values(column, ascending=False): the rows in descending order of the
\* key; the order of rows with equal keys is not fixed by the default sort
SortValues(rows, strategy) ==
    LET n == Len(rows)
        orders == {f \in [1..n -> 1..n] :
                      /\ \A i \in 1..n, j \in 1..n : i # j => f[i] # f[j]
                      /\ \A i \in 1..n, j \in 1..n :
                            i < j => RankingKey(strategy, rows[f[i]])
                                        >= RankingKey(strategy, rows[f[j]])}
    IN  {[i \in 1..n |-> rows[f[i]]] : f \in orders}

\* result.head(limit) when len(result) > limit
HeadLimit(rows, limit) ==
    IF Len(rows) > limit THEN SubSeq(rows, 1, limit) ELSE rows

\* a scan that cuts the masked rows to the limit before it sorts them
ScanStrategyTruncateFirst(df, strategy, limit) ==
    SortValues(HeadLimit(StandardizeOutput(
                   SelectSeq(df, LAMBDA row : StrategyMask(strategy, row))),
                   limit), strategy)

\* the body of the three scan methods: mask, _standardize_output,
\* sort_values, head(limit); the frames it can return
ScanStrategy(df, strategy, limit) ==
    {HeadLimit(sorted, limit) :
        sorted \in SortValues(StandardizeOutput(
                       SelectSeq(df, LAMBDA row : StrategyMask(strategy, row))),
                       strategy)}

ScanResult(strategy, rows) == [strategy |-> strategy, rows |-> rows]

\* scan_volume_breakout(limit)
ScanVolumeBreakout ==
    /\ sc_pc = "ready"
    /\ \E rows \in ScanStrategy(sc_df, "volume_breakout", sc_limit) :
          sc_result' = ScanResult("volume_breakout", rows)
    /\ sc_pc' = "scanned"
    /\ UNCHANGED <<sc_df, sc_limit, ledgerVars, dedupVars, scoringVars,
                   coreSupportVars, tradeVars, writerVars, validatorVars>>

\* scan_limit_candidates(limit)
ScanLimitCandidates ==
    /\ sc_pc = "ready"
    /\ \E rows \in ScanStrategy(sc_df, "limit_candidates", sc_limit) :
          sc_result' = ScanResult("limit_candidates", rows)
    /\ sc_pc' = "scanned"
    /\ UNCHANGED <<sc_df, sc_limit, ledgerVars, dedupVars, scoringVars,
                   coreSupportVars, tradeVars, writerVars, validatorVars>>

\* scan_turtle_stocks(limit)
ScanTurtleStocks ==
    /\ sc_pc = "ready"
    /\ \E rows \in ScanStrategy(sc_df, "turtle_stocks", sc_limit) :
          sc_result' = ScanResult("turtle_stocks", rows)
    /\ sc_pc' = "scanned"
    /\ UNCHANGED <<sc_df, sc_limit, ledgerVars, dedupVars, scoringVars,
                   coreSupportVars, tradeVars, writerVars, validatorVars>>

\* StrategyScanner(df) was constructed over a snapshot
InitScan ==
    /\ InitLedgerIdle /\ InitDedupIdle /\ InitGatewayIdle /\ InitPipelineIdle
    /\ InitCoreSupportIdle
    /\ InitTradeIdle /\ InitWriterIdle /\ InitValidatorIdle
    /\ sc_pc = "ready"
    /\ sc_df \in ScanFrames
    /\ sc_limit \in 1..MaxLimit
    /\ sc_result = NoScan

NextScan ==
    \/ ScanVolumeBreakout
    \/ ScanLimitCandidates
    \/ ScanTurtleStocks

SpecScan == InitScan /\ [][NextScan]_vars

----------------------------------------------------------------------------
(* Properties of the ledger.                                               *)

Positions(d) == {d.positions[i] : i \in 1..Len(d.positions)}

IsBuy(c) == c.op = "buy"

\* C1: from a newly created account, after any sequence of buys and price
\* updates, the cash balance is never negative, in memory and on disk.
CashNeverNegative ==
    /\ data.cash >= 0
    /\ portfolio_file.content.cash >= 0

\* a buy whose cost exceeded the remaining cash has been rejected
CashGateRejected ==
    /\ IsBuy(call) /\ ~call.ok /\ call.msg = "insufficient"
    /\ call.shares > 0
    /\ call.shares * call.price > data.cash

\* C2: a buy for a symbol that is already held returns failure and leaves
\* cash, positions and the transaction log (and the file) as they were.
DuplicateBuyRejected ==
    [][(IsBuy(call') /\ Held(data, call'.symbol))
          => (/\ ~call'.ok
              /\ data' = data
              /\ portfolio_file' = portfolio_file)]_vars

\* a buy of a held symbol was rejected while other positions exist
DuplicateBuySeen ==
    /\ IsBuy(call) /\ call.msg = "held"
    /\ Held(data, call.symbol)
    /\ Len(data.positions) >= 2

\* C3: no symbol appears in more than one position, in the ledger of any run
\* and in the persisted account the next run loads.
Distinct(d) ==
    \A i, j \in 1..Len(d.positions) :
        d.positions[i].symbol = d.positions[j].symbol => i = j

OnePositionPerSymbol == Distinct(data) /\ Distinct(portfolio_file.content)

\* a later run constructed its ledger from a persisted account that holds a
\* position bought by an earlier run of the model
LoadedEarlierBuy ==
    /\ call.op = "construct" /\ call.ok
    /\ portfolio_file = FileOf(data)
    /\ \E p \in Positions(data) : p.symbol \in Symbols

\* C4: the share count of a buy at price > 0 is the largest multiple of the
\* lot whose cost does not exceed the per-position amount, and every held
\* position has a positive whole number of lots.
WholeLots(shares, price) ==
    /\ shares >= 0
    /\ shares % LOT = 0
    /\ shares * price <= TRADE_AMOUNT_PER_POS * 100
    /\ (shares + LOT) * price > TRADE_AMOUNT_PER_POS * 100

LotRounding ==
    /\ (IsBuy(call) /\ call.msg # "held" /\ call.price > 0)
          => WholeLots(call.shares, call.price)
    /\ \A p \in Positions(data) : p.shares > 0 /\ WholeLots(p.shares, p.avg_price)

\* a buy of several lots whose cost is strictly below the amount
SeveralLotsBought ==
    /\ IsBuy(call) /\ call.ok
    /\ call.shares > LOT
    /\ call.shares * call.price < TRADE_AMOUNT_PER_POS * 100

\* C5: every failure of the three checks is returned as (False, reason),
\* never raised, and leaves cash, positions, the log and the file unchanged;
\* at 501.00 no lot is affordable and the buy is rejected.
RejectionsAreReturned ==
    [][(IsBuy(call') /\ ~call'.ok)
          => (/\ ~call'.raised
              /\ call'.msg \in {"held", "insufficient"}
              /\ (call'.price = OneLotPrice + 100 /\ ~Held(data, call'.symbol)
                     => call'.shares = 0 /\ call'.msg = "insufficient")
              /\ data' = data
              /\ portfolio_file' = portfolio_file)]_vars

\* the scenario of the specification: cash 50,000, price 501, no lot
NoLotAffordable ==
    /\ IsBuy(call) /\ ~call.ok /\ call.msg = "insufficient"
    /\ call.price = OneLotPrice + 100
    /\ call.shares = 0
    /\ data.cash = TRADE_AMOUNT_PER_POS * 100

\* C6: a buy that passes the checks debits exactly shares * price, appends
\* one position (average price = price, cost = shares * price) and one
\* transaction record, and changes no earlier position or record.
SuccessfulBuyEffect ==
    [][(IsBuy(call') /\ call'.ok)
          => LET n == Len(data.positions)
                 p == data'.positions[n + 1]
                 t == data'.transactions[Len(data.transactions) + 1]
             IN  /\ Len(data'.positions) = n + 1
                 /\ SubSeq(data'.positions, 1, n) = data.positions
                 /\ p.symbol = call'.symbol
                 /\ p.avg_price = call'.price
                 /\ p.shares > 0
                 /\ p.cost = p.shares * call'.price
                 /\ data'.cash = data.cash - p.shares * call'.price
                 /\ Len(data'.transactions) = Len(data.transactions) + 1
                 /\ SubSeq(data'.transactions, 1, Len(data.transactions))
                        = data.transactions
                 /\ t.symbol = call'.symbol
                 /\ t.shares = p.shares
                 /\ t.amount = p.cost]_vars

\* a successful buy into an account that already held positions
BoughtNextToOthers ==
    /\ IsBuy(call) /\ call.ok
    /\ Len(data.positions) >= 2
    /\ Len(data.transactions) = Len(data.positions)

\* C7: after a buy that returned success the persisted account equals the
\* account in memory.
PersistedAfterBuy ==
    (IsBuy(call) /\ call.ok) => portfolio_file = FileOf(data)

\* C8: a ledger constructed after the process was torn down during a buy
\* holds the complete account of before the buy or of after it (the file
\* held the account of before the buy when the buy started).
TornBuyIsAtomic ==
    (torn.active /\ torn.loaded /\ torn.synced)
        => data \in {torn.pre, torn.post}

\* C9: update_prices leaves cash, the transaction log, the held symbols and
\* each position's share count, average price and cost unchanged, does not
\* touch positions outside the map, and sets price, market value and
\* unrealized profit of the positions in the map.
UpdatePricesFrame ==
    [][(call'.op = "update_prices")
          => (/\ data'.cash = data.cash
              /\ data'.transactions = data.transactions
              /\ Len(data'.positions) = Len(data.positions)
              /\ \A i \in 1..Len(data.positions) :
                    LET p == data.positions[i]
                        q == data'.positions[i]
                    IN  /\ q.symbol = p.symbol
                        /\ q.shares = p.shares
                        /\ q.avg_price = p.avg_price
                        /\ q.cost = p.cost
                        /\ p.symbol \notin DOMAIN call'.price_map => q = p
                        /\ p.symbol \in DOMAIN call'.price_map =>
                              /\ q.current_price = call'.price_map[p.symbol]
                              /\ q.market_value = q.shares * q.current_price
                              /\ q.profit_loss = q.market_value - q.cost)]_vars

\* prices were updated for one held position and not for another
PricesUpdatedForSome ==
    /\ call.op = "update_prices"
    /\ \E p \in Positions(data) :
          p.symbol \in DOMAIN call.price_map /\ p.current_price # p.avg_price
    /\ \E p \in Positions(data) :
          p.symbol \in Symbols /\ p.symbol \notin DOMAIN call.price_map

\* C10: de-duplicating the de-duplicated list returns it unchanged: the same
\* symbols in the same order with the same strategy tags.
DedupIdempotent ==
    dd_pc = "twice" => dd_twice = dd_unique

\* a list with a repeated symbol was reduced to two or more candidates
DedupRemovedSome ==
    /\ dd_pc = "twice"
    /\ Len(dd_unique) >= 2
    /\ Len(dd_unique) < Len(dd_candidates)

\* the position of a strategy in the fixed order of _scan_strategies
StrategyRank(strategy) ==
    IF strategy = StrategyA THEN 1 ELSE IF strategy = StrategyB THEN 2 ELSE 3

\* the index in the concatenation of the first candidate with this symbol
FirstIndex(candidates, symbol) ==
    CHOOSE k \in 1..Len(candidates) :
        /\ candidates[k].symbol = symbol
        /\ \A j \in 1..(k - 1) : candidates[j].symbol # symbol

\* C11: the aggregated list holds every symbol of the concatenation exactly
\* once; each entry is the first occurrence of its symbol in the concatenation,
\* which lists Breakout, then Limit-Approach, then Accumulation, so the entry
\* carries the tag of the earliest strategy naming the symbol; the kept entries
\* stand in the order of the concatenation.
AggregatedFirstOccurrence ==
    dd_pc \in {"once", "twice", "capped"} =>
        /\ \A i, j \in 1..Len(dd_candidates) :
              i < j => StrategyRank(dd_candidates[i].strategy)
                          <= StrategyRank(dd_candidates[j].strategy)
        /\ {dd_unique[i].symbol : i \in 1..Len(dd_unique)}
              = {dd_candidates[k].symbol : k \in 1..Len(dd_candidates)}
        /\ \A i, j \in 1..Len(dd_unique) :
              i # j => dd_unique[i].symbol # dd_unique[j].symbol
        /\ \A i \in 1..Len(dd_unique) :
              /\ dd_unique[i]
                    = dd_candidates[FirstIndex(dd_candidates, dd_unique[i].symbol)]
              /\ \A k \in 1..Len(dd_candidates) :
                    dd_candidates[k].symbol = dd_unique[i].symbol
                    => StrategyRank(dd_unique[i].strategy)
                          <= StrategyRank(dd_candidates[k].strategy)
        /\ \A i, j \in 1..Len(dd_unique) :
              i < j => FirstIndex(dd_candidates, dd_unique[i].symbol)
                          < FirstIndex(dd_candidates, dd_unique[j].symbol)

\* a symbol named by two strategies was kept with the tag of the earlier one,
\* next to another symbol
KeptEarliestTag ==
    /\ dd_pc = "once"
    /\ Len(dd_unique) >= 2
    /\ \E i \in 1..Len(dd_unique), k \in 1..Len(dd_candidates) :
          /\ dd_candidates[k].symbol = dd_unique[i].symbol
          /\ dd_candidates[k].strategy # dd_unique[i].strategy

\* C12: the list sent to enrichment and scoring has at most max_candidates
\* entries and is the first max_candidates entries of the de-duplicated list
\* (all of it when it is shorter), in the same order; the cap is taken on the
\* de-duplicated list, not on the concatenation.
CapAfterDedup ==
    dd_pc = "capped" =>
        /\ Len(dd_batch) <= dd_max
        /\ Len(dd_batch) = IF Len(dd_unique) > dd_max THEN dd_max
                           ELSE Len(dd_unique)
        /\ \A i \in 1..Len(dd_batch) : dd_batch[i] = dd_unique[i]
        /\ dd_unique = DeduplicateCandidates(dd_candidates)

\* a de-duplicated list longer than the cap was cut to its first entries
CapCutTheList ==
    /\ dd_pc = "capped"
    /\ dd_max >= 1
    /\ Len(dd_unique) > dd_max
    /\ Len(dd_batch) = dd_max
    /\ Len(dd_candidates) > Len(dd_unique)

----------------------------------------------------------------------------
(* Properties of the scoring gateway.                                      *)

\* C14: whatever suggestion the service returns, the result of the gateway
\* carries one of the four fixed values, and a returned value outside the
\* four is turned into "watch".
SuggestionNormalizationTotal ==
    gw_pc = "returned" =>
        /\ gw_result.suggestion \in {"strong_buy", "buy", "watch", "avoid"}
        /\ (gw_reply.kind = "answer"
             /\ gw_reply.suggestion
                   \notin {"strong_buy", "buy", "watch", "avoid"})
           => gw_result.suggestion = "watch"

\* the service answered with a high score and a text outside the four values
UnknownSuggestionSeen ==
    /\ gw_pc = "returned"
    /\ gw_reply.kind = "answer"
    /\ gw_reply.suggestion = "hold"
    /\ gw_result.score >= 90
    /\ gw_result.suggestion = "watch"

\* C15: analyze_stock never lets an exception out; when the call to the
\* service raises, or the answer is not JSON, lacks a key or has a score that
\* is no number, it returns the default result: score 0, suggestion "watch".
GatewayNeverRaises ==
    gw_pc = "returned" =>
        /\ ~gw_result.raised
        /\ gw_reply.kind # "answer"
           => /\ gw_result.score = 0
              /\ gw_result.suggestion = "watch"
              /\ gw_result.reason = "unavailable"

\* a service call that raised ended in the default result
ServiceFailureSeen ==
    /\ gw_pc = "returned"
    /\ gw_reply.kind = "api_error"
    /\ gw_result = DefaultResult

----------------------------------------------------------------------------
(* Properties of an analysis run.                                          *)

\* the rows this run inserted for a symbol
RowsOf(symbol) == {i \in 1..Len(pl_rows) : pl_rows[i].symbol = symbol}

\* the buy_stock calls of this run for a symbol
BuyCalls(symbol) == Cardinality({i \in 1..Len(pl_buys) : pl_buys[i] = symbol})

\* the symbols the loop attempted, in the order of the attempts
Attempted == [i \in 1..Len(pl_log) |-> pl_log[i].symbol]

\* C13: whatever the scoring service returned for a candidate, below 0 and
\* above 100 included, the score in the row persisted for it is an integer
\* between 0 and 100.
PersistedScoreInRange ==
    \A i \in 1..Len(pl_rows) :
        \E v \in pl_rows[i].ai_score : v \in 0..100

\* C16: for every candidate whose scoring failed the run has persisted
\* exactly one row, with score 0, suggestion "watch" and status "New".
FailedScoringPersistedAsZero ==
    pl_pc \in {"trend", "done"} =>
        \A i \in 1..Len(pl_log) :
            pl_log[i].reply.kind # "answer" =>
                /\ Cardinality(RowsOf(pl_log[i].symbol)) = 1
                /\ \A k \in RowsOf(pl_log[i].symbol) :
                      /\ pl_rows[k].ai_score = {0}
                      /\ pl_rows[k].ai_suggestion = "watch"
                      /\ pl_rows[k].status = "New"

SnapshotFailureEndsRun ==
    pl_fetches = "raised" =>
        /\ pl_pc = "done"
        /\ pl_log = <<>>
        /\ pl_rows = <<>>
        /\ pl_buys = <<>>
        /\ pl_analyzer = "none"
        /\ ~live
        /\ data = NoAccount
        /\ portfolio_file \in {NoFile, HeldFile}
        /\ ~pl_raised
        /\ pl_summary = [printed |-> TRUE, rows |-> <<>>]

\* the fetch gave up in a run that has rows of earlier days and may trade
SnapshotFetchGaveUp ==
    /\ pl_fetches = "raised"
    /\ pl_pc = "done"
    /\ pl_auto_trade
    /\ pl_history # <<>>

\* C19: buy_stock is called for a symbol only with the flag enabled and a
\* streak count of that symbol, computed in this run, at or above the
\* threshold 2; with the flag disabled no step of the run creates or changes
\* the ledger or its file.
BuyOnlyWhenEnabledAndStreak ==
    [][ /\ \A i \in 1..Len(pl_buys') :
              /\ pl_auto_trade
              /\ \E j \in 1..Len(pl_high') :
                    /\ pl_high'[j].symbol = pl_buys'[i]
                    /\ pl_high'[j].streak_count >= 2
        /\ ~pl_auto_trade =>
              /\ live' = live
              /\ data' = data
              /\ portfolio_file' = portfolio_file
              /\ pl_buys' = <<>> ]_vars

\* an enabled run bought one high-score stock and passed over another whose
\* streak was too short
BoughtOneSkippedOne ==
    /\ pl_pc = "done"
    /\ pl_auto_trade
    /\ pl_buys # <<>>
    /\ \E j \in 1..Len(pl_high) :
          pl_high[j].streak_count < 2 /\ BuyCalls(pl_high[j].symbol) = 0

\* the days, among the given ones, on which the table has a row of the
\* symbol with a score of 75 or more
HighDays(symbol, days) ==
    {d \in days :
        \E i \in 1..Len(pl_history \o pl_rows) :
            LET row == (pl_history \o pl_rows)[i]
            IN  /\ row.symbol = symbol
                /\ row.day = d
                /\ \E v \in row.ai_score : v >= 75}

\* the symbol scored 75 or more in this run
ScoredHighNow(symbol) ==
    \E i \in 1..Len(pl_log) :
        pl_log[i].symbol = symbol /\ pl_log[i].result.score >= 75

----------------------------------------------------------------------------
(* The streak query.                                                       *)

\* the step stores one more qualifying row for the symbol on a day that
\* already has a qualifying row for it
AddsToQualifyingDay(symbol) ==
    /\ Len(st_table') = Len(st_table) + 1
    /\ LET r == st_table'[Len(st_table')]
       IN  /\ r.symbol = symbol
           /\ ScoreAtLeast(r, SCORE_THRESHOLD)
           /\ \E k \in 1..Len(st_table) :
                 /\ st_table[k].symbol = symbol
                 /\ st_table[k].day = r.day
                 /\ ScoreAtLeast(st_table[k], SCORE_THRESHOLD)

\* C21: storing a further qualifying row for a symbol on a calendar day that
\* already has a qualifying row for that symbol changes the streak count of
\* the symbol for no window and no day of the query.
StreakDateDistinct ==
    [][\A symbol \in StreakSymbols, days \in StreakWindows,
         today \in st_today..(st_today + STREAK_DAYS + 1) :
          AddsToQualifyingDay(symbol) =>
             StreakCount(st_table', symbol, days, SCORE_THRESHOLD, today)
               = StreakCount(st_table, symbol, days, SCORE_THRESHOLD, today)]_vars

\* a symbol has two qualifying rows of one day, and a query made on a later
\* day counted that day once
SameDayCountedOnce ==
    /\ st_call.op = "check_streak"
    /\ st_call.db_ok
    /\ st_call.result = 1
    /\ \E i \in 1..Len(st_table), k \in 1..Len(st_table) :
          /\ i < k
          /\ st_table[i].symbol = st_call.symbol
          /\ st_table[k].symbol = st_call.symbol
          /\ st_table[i].day = st_table[k].day
          /\ st_table[i].day < st_today
          /\ st_table[i].day >= st_today - st_call.days
          /\ ScoreAtLeast(st_table[i], SCORE_THRESHOLD)
          /\ ScoreAtLeast(st_table[k], SCORE_THRESHOLD)

\* the symbol has a row with score >= threshold on the day
ScoredOn(symbol, day) ==
    \E k \in 1..Len(st_table) :
       /\ st_table[k].symbol = symbol
       /\ st_table[k].day = day
       /\ ScoreAtLeast(st_table[k], SCORE_THRESHOLD)

----------------------------------------------------------------------------
(* The signal store.                                                       *)

\* C23: every record's status is one of New, Watchlist, Ignored; a record a
\* pipeline run stores starts as New; an update_status with a value outside
\* the set returns False, raises nothing and changes no record.
StatusAlwaysValid ==
    [][/\ \A i \in 1..Len(sg_status') : sg_status'[i] \in valid_statuses
       /\ sg_call'.op = "insert" =>
             /\ Len(sg_status') = Len(sg_status) + 1
             /\ sg_status'[Len(sg_status')] = "New"
       /\ (sg_call'.op = "update_status"
             /\ sg_call'.status \notin valid_statuses) =>
             /\ ~sg_call'.result
             /\ ~sg_call'.raised
             /\ sg_status' = sg_status]_vars

\* an update_status with an invalid value for a stored record that is in the
\* watchlist returned False
InvalidStatusRejected ==
    /\ sg_call.op = "update_status"
    /\ sg_call.status \notin valid_statuses
    /\ ~sg_call.result
    /\ sg_call.record_id \in 1..Len(sg_status)
    /\ sg_status[sg_call.record_id] = "Watchlist"

\* C24 as stated: no step moves a record directly between Watchlist and
\* Ignored.
StatusChangesOnlyThroughNew ==
    [][\A i \in 1..Len(sg_status) :
          <<sg_status[i], sg_status'[i]>> \notin
             {<<"Watchlist", "Ignored">>, <<"Ignored", "Watchlist">>}]_vars

\* C24: a status changes only in an update_status call that names the record
\* and a value of the set and that returns True, and then to that value;
\* every transition between two values of the set is accepted, Watchlist to
\* Ignored and Ignored to Watchlist included.
StatusChangesOnlyByUpdate ==
    [][\A i \in 1..Len(sg_status) :
          sg_status'[i] # sg_status[i] =>
             /\ sg_call'.op = "update_status"
             /\ sg_call'.record_id = i
             /\ sg_call'.status \in valid_statuses
             /\ sg_call'.result
             /\ sg_status'[i] = sg_call'.status]_vars

\* a record of the watchlist was moved to Ignored, and another record is
\* still New
WatchlistToIgnored ==
    /\ sg_call.op = "update_status"
    /\ sg_call.before = "Watchlist"
    /\ sg_call.status = "Ignored"
    /\ sg_call.result
    /\ sg_status[sg_call.record_id] = "Ignored"
    /\ \E i \in 1..Len(sg_status) :
          /\ i # sg_call.record_id
          /\ sg_status[i] = "New"

----------------------------------------------------------------------------
(* The rows of a run.                                                      *)

\* the rows of the symbol in a list of rows
RecordsOf(rows, symbol) == {k \in 1..Len(rows) : rows[k].symbol = symbol}

\* C25 as stated: a run leaves exactly one new record for every candidate
\* it scored.
OneRecordPerScoredCandidate ==
    \A i \in 1..Len(pl_log) :
       Cardinality(RecordsOf(pl_rows, pl_log[i].symbol)) = 1

\* C25: the rows of earlier runs are never changed or removed; a pass of the
\* loop whose insert succeeds adds exactly one row, for its candidate, after
\* the rows already stored, and a pass whose insert raises adds none; no
\* other step touches the table.
RunOnlyAppends ==
    [][/\ pl_history' = pl_history
       /\ IF Len(pl_log') = Len(pl_log) + 1 /\ pl_log'[Len(pl_log')].saved
          THEN /\ Len(pl_rows') = Len(pl_rows) + 1
               /\ SubSeq(pl_rows', 1, Len(pl_rows)) = pl_rows
               /\ pl_rows'[Len(pl_rows')].symbol
                     = pl_log'[Len(pl_log')].symbol
          ELSE pl_rows' = pl_rows]_vars

\* a completed run stored a row for each of two candidates, one of which has
\* rows of an earlier day and of an earlier run of the same day: the table
\* holds them all
SecondRunAddedRecord ==
    /\ pl_pc = "done"
    /\ Len(pl_rows) = 2
    /\ \E k \in 1..Len(pl_rows), i \in 1..Len(pl_history),
          j \in 1..Len(pl_history) :
          /\ pl_history[i].symbol = pl_rows[k].symbol
          /\ pl_history[j].symbol = pl_rows[k].symbol
          /\ pl_history[i].day = Today
          /\ pl_history[j].day < Today
          /\ pl_rows[k].day = Today

----------------------------------------------------------------------------
(* The retry executor.                                                     *)

\* the events of the kind, by their position
EventsOf(kind) == {i \in 1..Len(rt_events) : rt_events[i].kind = kind}

\* the call has ended
RetryEnded == rt_pc \in {"returned", "raised"}

RetryReraisesLastError ==
    /\ rt_pc = "raised" =>
          /\ rt_result.kind = "raised"
          /\ \E i \in EventsOf("call") :
                /\ \A k \in EventsOf("call") : k <= i
                /\ rt_result.value = rt_events[i].what
    /\ RetryEnded =>
          Cardinality(EventsOf("warning"))
             = Cardinality(EventsOf("call")) - 1
    /\ \A i \in EventsOf("warning") :
          /\ rt_events[i - 1].kind = "call"
          /\ i < Len(rt_events) => rt_events[i + 1].kind = "sleep"
    /\ \A i \in EventsOf("sleep") : rt_events[i - 1].kind = "warning"

\* three attempts raised three different errors and the call raised the
\* third, after two warnings
ThirdErrorReraised ==
    /\ rt_pc = "raised"
    /\ Len(rt_errors) = 3
    /\ rt_errors[1] # rt_errors[3]
    /\ rt_errors[2] # rt_errors[3]
    /\ rt_result.value = rt_errors[3]
    /\ Cardinality(EventsOf("warning")) = 2

----------------------------------------------------------------------------
(* The snapshot cache.                                                     *)

\* the age of the stored copy when the last read began
AgeBefore == ch_now - ch_read.before.timestamp

OffHoursServesStoredCopy ==
    (/\ ch_read.op = "read"
     /\ ~ch_read.trading
     /\ ch_read.before.exists
     /\ ch_read.before.data = "frame"
     /\ AgeBefore < OFF_HOURS_EXPIRE) =>
       /\ ch_read.fetches = 0
       /\ ch_read.returned = ch_read.before.data
       /\ ch_file = ch_read.before

\* C30 as stated: no empty snapshot is ever stored in the cache.
NoEmptySnapshotStored == ch_file.exists => ch_file.data # "empty"

\* C30: no empty snapshot is served from the cache, in trading hours or
\* outside them: a read that makes no fetch returns a snapshot with rows; a
\* read that finds no copy or an empty copy calls the provider; a fetch that
\* raises or gives an empty frame stores nothing.
EmptySnapshotNeverServed ==
    ch_read.op = "read" =>
       /\ ch_read.fetches = 0 => ch_read.returned = "frame"
       /\ (~ch_read.before.exists \/ ch_read.before.data = "empty") =>
             ch_read.fetches = 1
       /\ (ch_read.fetches = 1 /\ ch_read.fetched # "frame") =>
             /\ ch_read.returned = "empty"
             /\ ch_file \in {ch_read.before, NoCacheFile}

\* outside trading hours a read found a fresh copy that is empty and called
\* the provider
EmptyCopyRefetched ==
    /\ ch_read.op = "read"
    /\ ~ch_read.trading
    /\ ch_read.before.exists
    /\ ch_read.before.data = "empty"
    /\ AgeBefore <= CACHE_EXPIRE
    /\ ch_read.fetches = 1

----------------------------------------------------------------------------
(* The statistics, the order and the pacing of one analysis run.           *)

\* C31: every run that went through a non-empty batch reports a success
\* count and a failure count whose sum is the size of the batch, whichever
\* candidates failed in scoring or in persistence: during the loop the two
\* counters add up to the number of candidates attempted so far, every pass
\* adding one to exactly one of them, and the statistics printed after the
\* loop carry these counters and the size of the batch.
SuccessAndFailureSumToBatch ==
    /\ pl_analyzer = "constructed" =>
          /\ pl_success + pl_fail = Len(pl_log)
          /\ pl_success =
                Cardinality({i \in 1..Len(pl_log) :
                                CountsAsSuccess(pl_log[i].result)})
    /\ (pl_pc = "done" /\ pl_analyzer = "constructed") => pl_stats.reported
    /\ pl_stats.reported =>
          /\ pl_stats.success + pl_stats.fail = Len(pl_batch)
          /\ pl_stats.total = Len(pl_batch)
          /\ pl_stats.success = pl_success
          /\ pl_stats.fail = pl_fail

\* the statistics of a batch of two: one scored candidate whose insert
\* failed, one candidate whose scoring failed
OneSuccessOneFailureReported ==
    /\ pl_stats.reported
    /\ pl_stats.success = 1
    /\ pl_stats.fail = 1
    /\ \E i \in 1..Len(pl_log) :
          ~pl_log[i].saved /\ CountsAsSuccess(pl_log[i].result)
    /\ \E i \in 1..Len(pl_log) : pl_log[i].reply.kind = "api_error"

\* indices of the calls of one kind in the trace of the run
EventsAt(ev) == {i \in 1..Len(pl_trace) : pl_trace[i].ev = ev}

\* every call of the first set was made before every call of the second
AllBefore(first, second) == \A i \in first, j \in second : i < j

\* the symbols of the calls of one kind, in the order of the calls
SymbolsOf(ev) ==
    LET calls == SelectSeq(pl_trace, LAMBDA e : e.ev = ev)
    IN  [i \in 1..Len(calls) |-> calls[i].symbol]

\* C34: the stages of a run follow each other in the order scan,
\* de-duplicate, per-candidate scoring and persisting in the order of the
\* batch, streak check, automatic trade, summary, idle: no streak query
\* before the last candidate was persisted, no buy before all streak queries
\* were made, the summary after the last buy and at the end of the run.
StagesInOrder ==
    /\ AllBefore(EventsAt("scan"), EventsAt("deduplicate"))
    /\ AllBefore(EventsAt("deduplicate"), EventsAt("score"))
    /\ AllBefore(EventsAt("score") \cup EventsAt("persist")
                    \cup EventsAt("sleep"), EventsAt("streak"))
    /\ AllBefore(EventsAt("streak"), EventsAt("buy"))
    /\ AllBefore(EventsAt("scan") \cup EventsAt("deduplicate")
                    \cup EventsAt("score") \cup EventsAt("persist")
                    \cup EventsAt("streak") \cup EventsAt("buy"),
                 EventsAt("summary"))
    /\ Cardinality(EventsAt("summary")) <= 1
    /\ EventsAt("summary") # {} => pl_pc = "done"
    /\ \A i \in 1..Len(SymbolsOf("score")) :
          SymbolsOf("score")[i] = pl_batch[i]
    /\ \A i \in EventsAt("persist") :
          /\ pl_trace[i - 1].ev = "score"
          /\ pl_trace[i - 1].symbol = pl_trace[i].symbol
    /\ pl_pc \in {"trend", "done"} /\ pl_analyzer = "constructed" =>
          SymbolsOf("persist") = pl_batch
    /\ pl_pc = "done" /\ pl_analyzer = "constructed" =>
          /\ SymbolsOf("streak") = [i \in 1..Len(pl_high) |-> pl_high[i].symbol]
          /\ SymbolsOf("buy") = pl_buys

\* a run of two candidates that went through every stage, a buy included
RunWentThroughEveryStage ==
    /\ pl_pc = "done"
    /\ Len(SymbolsOf("score")) = 2
    /\ Len(SymbolsOf("streak")) = 2
    /\ EventsAt("buy") # {}
    /\ pl_summary.printed

\* C35: the scoring calls of a run are made one after the other, and between
\* any two consecutive scoring calls there is exactly one pacing wait,
\* whatever the earlier call gave (an answer, the default result) and
\* whether its row was stored or not.
OneWaitBetweenScoringCalls ==
    \A i \in EventsAt("score"), j \in EventsAt("score") :
        (i < j /\ ~\E k \in EventsAt("score") : i < k /\ k < j) =>
            Cardinality({k \in EventsAt("sleep") : i < k /\ k < j}) = 1

\* a second scoring call was made after a first one that failed and whose
\* insert failed as well
ScoredAgainAfterFailure ==
    /\ Len(pl_log) = 2
    /\ pl_log[1].reply.kind = "api_error"
    /\ ~pl_log[1].saved
    /\ Len(SymbolsOf("score")) = 2

----------------------------------------------------------------------------
(* The ledger's file at construction, the value kept by the ledger, and    *)
(* the agreement of score and suggestion.                                  *)

\* C36: constructing a ledger never replaces an existing persisted account,
\* whatever its content, with the default account: when portfolio.json
\* exists, PortfolioManager() leaves the file as it is.
ConstructKeepsExistingFile ==
    [][(call'.op = "construct" /\ portfolio_file.exists)
          => portfolio_file' = portfolio_file]_vars

RECURSIVE SumCost(_)
SumCost(positions) ==
    IF positions = <<>> THEN 0
    ELSE Head(positions).cost + SumCost(Tail(positions))

\* cash plus the cost of the positions is the initial cash, one transaction
\* record per position
ValueKept(d) ==
    /\ d.cash + SumCost(d.positions) = INITIAL_CASH * 100
    /\ Len(d.transactions) = Len(d.positions)

\* C39: in every state of a ledger that started from a newly created
\* account, cash plus the sum of the cost over all positions equals the
\* initial cash and there are as many transaction records as positions, in
\* memory and in every complete file: rejected buys and price updates move
\* no value.
LedgerKeepsValue ==
    /\ live => ValueKept(data)
    /\ Loads(portfolio_file) => ValueKept(portfolio_file.content)

\* prices were updated for a ledger that holds two positions bought in this
\* life of the ledger, and the market value of one moved away from its cost
ValueKeptAfterUpdate ==
    /\ live
    /\ call.op = "update_prices"
    /\ \E i \in 1..Len(data.positions), j \in 1..Len(data.positions) :
          /\ i # j
          /\ data.positions[i].symbol \in Symbols
          /\ data.positions[j].symbol \in Symbols
          /\ data.positions[i].market_value # data.positions[i].cost

\* C40: every result handed back by analyze_stock is consistent, whatever
\* the service answered: with a score below 60 the suggestion is neither
\* strong_buy nor buy, with a score of 90 or more it is not the plain buy.
ScoreAndSuggestionAgree ==
    gw_pc = "returned" =>
       /\ ~gw_result.raised
       /\ gw_result.score < 60 => gw_result.suggestion \notin {"strong_buy", "buy"}
       /\ gw_result.score >= 90 => gw_result.suggestion # "buy"

\* the service said buy with a score that is clamped to 100, and the result
\* carries strong_buy
BuyUpgradedToStrongBuy ==
    /\ gw_pc = "returned"
    /\ gw_reply = Answer(1500, "buy")
    /\ gw_result.score = 100
    /\ gw_result.suggestion = "strong_buy"

----------------------------------------------------------------------------
(* The automatic trade under an exception.                                 *)

\* C33: an exception raised while one symbol is bought does not keep
\* buy_stock from being called for the remaining symbols of the run whose
\* streak meets the threshold: when the step is over, buy_stock was called
\* for every such symbol.
EveryTriggeredSymbolAttempted ==
    (tr_pc = "done" /\ tr_enabled) =>
        \A i \in 1..Len(tr_stocks) :
            Triggers(tr_stocks[i].streak_count) =>
                \E k \in 1..Len(tr_calls) :
                    tr_calls[k].symbol = tr_stocks[i].symbol

----------------------------------------------------------------------------
(* The writers of the shared files.                                        *)

\* C32: the cache and the ledger each have a single writer: only the
\* orchestrator stores into the cache, deletes from it or clears it, and
\* only the orchestrator writes the account; the dashboard that runs
\* alongside only reads.
OrchestratorIsOnlyWriter ==
    \A w \in wr_cache \cup wr_ledger : w.process = "orchestrator"

----------------------------------------------------------------------------
(* The validated snapshot.                                                 *)

\* the cell is there and lies in [low, high]
Within(cell, low, high) == ~cell.nan /\ low <= cell.v /\ cell.v <= high

\* the kept rows are rows of the input, unmodified and in their order
SubCollection(kept, input) ==
    /\ \A i \in 1..Len(kept) : \E j \in 1..Len(input) : input[j] = kept[i]
    /\ \A i \in 1..Len(kept), k \in 1..Len(kept) :
          i < k => kept[i].symbol < kept[k].symbol

----------------------------------------------------------------------------
(* The output of a strategy.                                               *)

\* the row of the snapshot passes the filter of the strategy
Qualifies(strategy, row) ==
    LET between(cell, low, high) ==
            ~cell.nan /\ low <= cell.v /\ cell.v <= high
        above(cell, low) == ~cell.nan /\ cell.v > low
    IN  CASE strategy = "volume_breakout" ->
                /\ between(row.change_pct, 500, 800)
                /\ between(row.turnover, 700, 1500)
                /\ between(row.circ_mv, 10, 200)
                /\ between(row.price, 500, 200000)
          [] strategy = "limit_candidates" ->
                between(row.change_pct, 800, 2000) /\ above(row.turnover, 800)
          [] strategy = "turtle_stocks" ->
                between(row.change_pct, 200, 500) /\ above(row.turnover, 600)

\* the row of the snapshot is in the output, with its values
Kept(row) ==
    \E i \in 1..Len(sc_result.rows) :
        /\ sc_result.rows[i].symbol = row.symbol
        /\ sc_result.rows[i].price = row.price
        /\ sc_result.rows[i].change_pct = row.change_pct
        /\ sc_result.rows[i].turnover = row.turnover

\* C38: for each strategy, every snapshot and every limit N the output has
\* at most N rows, every row is a row of the snapshot that passes the filter
\* of the strategy, the rows are in descending order of the ranking key, and
\* no row that passes the filter and was left out has a larger key than a
\* row that was kept.
OutputIsTopN ==
    sc_pc = "scanned" =>
       LET out == sc_result.rows
           s == sc_result.strategy
           passing == {j \in 1..Len(sc_df) : Qualifies(s, sc_df[j])}
       IN  /\ Len(out) <= sc_limit
           /\ \A i \in 1..Len(out) :
                 \E j \in passing : sc_df[j].symbol = out[i].symbol
           /\ \A j \in 1..Len(sc_df) : Kept(sc_df[j]) => j \in passing
           /\ \A i \in 1..Len(out), k \in 1..Len(out) :
                 i # k => out[i].symbol # out[k].symbol
           /\ \A i \in 1..Len(out), k \in 1..Len(out) :
                 i < k => RankingKey(s, out[i]) >= RankingKey(s, out[k])
           /\ \A j \in passing : \A i \in 1..Len(out) :
                 Kept(sc_df[j]) \/ RankingKey(s, sc_df[j])
                                      <= RankingKey(s, out[i])
           /\ Len(out) = IF Cardinality(passing) > sc_limit THEN sc_limit
                         ELSE Cardinality(passing)

\* three rows pass the filter of the first strategy, the limit is 2, and the
\* row left out is the first row of the snapshot
WeakestFirstRowLeftOut ==
    /\ sc_pc = "scanned"
    /\ sc_result.strategy = "volume_breakout"
    /\ sc_limit = 2
    /\ Len(sc_df) = 3
    /\ \A j \in 1..3 : Qualifies("volume_breakout", sc_df[j])
    /\ Len(sc_result.rows) = 2
    /\ ~Kept(sc_df[1])
    /\ sc_df[1].turnover.v < sc_df[2].turnover.v

====
